---- MODULE Spec2Model ----
(***************************************************************************)
(* Model of the go-sqlite page codec (go1/sqlite3/codec/aes-hmac.go) and   *)
(* of the callback shim that drives it (go1/sqlite3/codec.go).             *)
(*                                                                         *)
(* Pages are sequences of 8-byte words: every offset and length that the   *)
(* codec computes (16, 24, kLen, tLen, aes.BlockSize) is a multiple of 8.  *)
(* The cryptographic primitives of the Go standard library are modelled    *)
(* symbolically: a keystream word, a derived key word and a digest word    *)
(* are terms over their inputs, and two terms are equal only when they     *)
(* were built from equal inputs.  Every word is a tuple whose first        *)
(* element names its kind.                                                 *)
(***************************************************************************)
EXTENDS Integers, Sequences, FiniteSets, TLC

VARIABLES
    inst,     \* codec id -> aesHmac struct (go1/sqlite3/codec/aes-hmac.go:22)
    appkey,   \* the key descriptor the application opens its database with
    keymem,   \* codec id -> the memory holding the key descriptor given to newAesHmac
    disk,     \* the copy of the page the last successful Encode returned
    page,     \* the host's page buffer handed to the last call, after the call
    res,      \* what the last call was and what it returned
    hist,     \* codec id -> bookkeeping about the codec's past (never read by the code)
    codecs,   \* the set codecs of go1/sqlite3/codec.go: the wrappers go_codec_init keeps
    pager,    \* pager -> the codec installed on it, its page size and its reserve
    conn,     \* connection -> where its running callback stands in its accesses to codecs
    obs,      \* bookkeeping about the callbacks (never read by the code)
    dbconn,   \* the Conn struct of go1/sqlite3/sqlite3.go and the busy handler of its db
    stmt,     \* the Stmt struct the application holds
    vm,       \* the sqlite3_stmt behind stmt.stmt
    call      \* the last call on dbconn or stmt and what it returned

cvars == <<inst, appkey, keymem, disk, page, res, hist>>
shim == <<codecs, pager, conn, obs>>
api == <<dbconn, stmt, vm, call>>
vars == <<inst, appkey, keymem, disk, page, res, hist, codecs, pager, conn, obs,
          dbconn, stmt, vm, call>>

----------------------------------------------------------------------------
(* Bounds of the model *)

\* the host fills its pages with the words 1..MaxWord
MaxWord == 1
\* the CSPRNG returns the words 1..MaxRnd
MaxRnd == 1
\* page numbers are 1..MaxPage
MaxPage == 2
\* the page size the pager uses, in words
PageSize == 12

(* Program constants, in 8-byte words *)

\* aes.BlockSize (16 bytes)
BlockSize == 2
\* kLen: 16 in newAesHmac
KLenDefault == 2
\* kLen = 24 for option "192"
KLen192 == 3
\* kLen = 32 for option "256"
KLen256 == 4
\* tLen: 16 in newAesHmac
TLenDefault == 2
\* p[:16], the SQLite header magic that init uses as HKDF info
HdrEnd == 2
\* p[16:24], the bytes of page 1 that stay in cleartext: words ClrLo+1 .. ClrHi
ClrLo == 2
ClrHi == 3
\* the bytes of a word: p[16:24] is one word
WordLen == 8

CodecIds == {1, 2}
Pages == 1 .. MaxPage
Words == 1 .. MaxWord

\* hist counts the master keys an instance has generated up to MaxGen
MaxGen == 2

Nil == <<"nil">>
Plain(v) == <<"p", v>>
Zeros(n) == [i \in 1 .. n |-> Plain(0)]
Fill(n, v) == [i \in 1 .. n |-> Plain(v)]

\* the value no CSPRNG read returns: the read failed
RndFail == 0 - 1
RndOut == (1 .. MaxRnd) \cup {RndFail}

\* s with the words of t written at offset off (a write through a subslice)
Splice(s, off, t) ==
    [i \in 1 .. Len(s) |-> IF i > off /\ i <= off + Len(t) THEN t[i - off] ELSE s[i]]

\* copy(dst, src): writes min(len(dst), len(src)) words at the start of dst
Copy(dst, src) ==
    [i \in 1 .. Len(dst) |-> IF i <= Len(src) THEN src[i] ELSE dst[i]]

Slice(s, lo, hi) == SubSeq(s, lo + 1, hi)

----------------------------------------------------------------------------
(* Key descriptors *)

Secret == Fill(2, 1)

KeyDesc(opts) == [scheme |-> "aes", opts |-> opts, secret |-> Secret]

\* the option sets the model constructs inst with
OptSets == {{}, {"256", "sha256", "ofb"}}

\* the orders in which a map iteration can yield the tokens of a set
Orders(S) ==
    {o \in [1 .. Cardinality(S) -> S] : \A i, j \in DOMAIN o : i # j => o[i] # o[j]}

WipedKey == [scheme |-> "", opts |-> {}, secret |-> Zeros(Len(Secret))]

(* The zero value of the aesHmac struct *)
ZeroCodec ==
    [key |-> FALSE, p1k |-> <<>>, buf |-> <<>>, cap |-> 0, kLen |-> 0, tLen |-> 0,
     hash |-> "nil", mode |-> "nil", block |-> Nil, hmac |-> Nil]

----------------------------------------------------------------------------
(* Standard-library and helper primitives *)

\* rnd(b): fills b with CSPRNG output, words that no page holds by chance
rnd(n, r) == [i \in 1 .. n |-> <<"r", r>>]

\* hkdf(ikm, salt, dkLen, hash)(info): word i of the output does not depend on dkLen
hkdf(ikm, salt, dkLen, h, info) ==
    [i \in 1 .. dkLen |-> <<"hkdf", h, ikm, salt, info, i>>]

\* XOR of a keystream word with a data word; x XOR k XOR k = x
Xor(k, w) == IF w[1] = "x" /\ w[2] = k THEN w[3] ELSE <<"x", k, w>>

\* cipher.Stream.XORKeyStream(dst, src)
XORKeyStream(stream, dst, src) ==
    [i \in 1 .. Len(dst) |->
        IF i <= Len(src) THEN Xor(<<"ks", stream, i>>, src[i]) ELSE dst[i]]

\* hash.Hash.Size(), in bytes: sha1.Size and sha256.Size
HashSize(h) == IF h = "sha1" THEN 20 ELSE IF h = "sha256" THEN 32 ELSE 0

\* wipe(b): every byte of b is set to zero
wipe(mem) == [scheme |-> "", opts |-> {}, secret |-> Zeros(Len(mem.secret))]

\* h.Write(n) ; h.Write(data) ; h.Sum: the first tLen words of the digest
Digest(h, n, data, tLen) == [i \in 1 .. tLen |-> <<"mac", h, n, data, i>>]

----------------------------------------------------------------------------
(* go1/sqlite3/codec/aes-hmac.go *)

\* config applies the codec options in the order the map iteration yields them;
\* bad is the first unrecognized option, "" when there is none
RECURSIVE config(_, _)
\* a config that skips the options it does not know
config_Lax(c, opts) ==
    IF opts = <<>> THEN [c |-> c, bad |-> ""]
    ELSE LET k == Head(opts) IN
         IF k = "192" THEN config([c EXCEPT !.kLen = KLen192], Tail(opts))
         ELSE IF k = "256" THEN config([c EXCEPT !.kLen = KLen256], Tail(opts))
         ELSE IF k = "ofb" THEN config([c EXCEPT !.mode = "ofb"], Tail(opts))
         ELSE IF k = "sha256" THEN config([c EXCEPT !.hash = "sha256"], Tail(opts))
         ELSE config(c, Tail(opts))

config(c, opts) ==
    IF opts = <<>> THEN [c |-> c, bad |-> ""]
    ELSE LET k == Head(opts) IN
         IF k = "192" THEN config([c EXCEPT !.kLen = KLen192], Tail(opts))
         ELSE IF k = "256" THEN config([c EXCEPT !.kLen = KLen256], Tail(opts))
         ELSE IF k = "ofb" THEN config([c EXCEPT !.mode = "ofb"], Tail(opts))
         ELSE IF k = "sha256" THEN config([c EXCEPT !.hash = "sha256"], Tail(opts))
         ELSE [c |-> c, bad |-> k]

\* newAesHmac: no codec when the key has no secret or an option is unknown
newAesHmac(key, order) ==
    IF key.secret = <<>> THEN [c |-> ZeroCodec, err |-> "key", msg |-> ""]
    ELSE LET r == config([key |-> TRUE, p1k |-> key.secret, buf |-> <<>>, cap |-> 0,
                          kLen |-> KLenDefault, tLen |-> TLenDefault,
                          hash |-> "sha1", mode |-> "ctr", block |-> Nil, hmac |-> Nil],
                         order)
         IN IF r.bad # "" THEN [c |-> ZeroCodec, err |-> "misuse", msg |-> r.bad]
            ELSE [c |-> r.c, err |-> "ok", msg |-> ""]

\* p1i: the HKDF info of page 1, "go-sqlite"
p1i == << <<"s", "go-sqlite">> >>

\* a Reserve that leaves the IV out
Reserve_NoIV(c) == c.kLen + c.tLen

Reserve(c) == c.kLen + BlockSize + c.tLen

\* a pAuth that leaves the IV out of the authenticated bytes
pAuth_NoIV(c, p) == Slice(p, 0, Len(p) - c.tLen - BlockSize)

\* pAuth returns the page subslice that gets authenticated
pAuth(c, p) == Slice(p, 0, Len(p) - c.tLen)

\* a pText that runs into the IV slot
pText_Wide(c, p) == Slice(p, 0, Len(p) - c.tLen)

\* pText returns the page subslice that gets encrypted
pText(c, p) == Slice(p, 0, Len(p) - c.tLen - BlockSize)

\* pKey returns the master key from page 1
pKeyOff(c, p) == Len(p) - c.tLen - BlockSize - c.kLen
pKey(c, p) == Slice(p, pKeyOff(c, p), pKeyOff(c, p) + c.kLen)

\* pIV returns the page initialization vector
pIVOff(c, p) == Len(p) - c.tLen - BlockSize
pIV(c, p) == Slice(p, pIVOff(c, p), pIVOff(c, p) + BlockSize)

\* pTag returns the page authentication tag
pTagOff(c, p) == Len(p) - c.tLen
pTag(c, p) == Slice(p, pTagOff(c, p), Len(p))

\* rekey creates a new block cipher and HMAC hash using the specified keys;
\* aes.NewCipher accepts keys of 16, 24 and 32 bytes only
rekey(c, ck, hk) ==
    IF Len(ck) \in {KLenDefault, KLen192, KLen256}
    THEN [block |-> <<"aes", ck>>, hmac |-> <<"hmac", c.hash, hk>>]
    ELSE [block |-> Nil, hmac |-> Nil]

\* a cipher that hands out the HMAC of the database for page 1 once it is set
cipher_DbMac(c, n, iv) ==
    IF n > 1
    THEN IF c.hmac = Nil
         THEN [panic |-> TRUE, stream |-> Nil, hmac |-> Nil]
         ELSE [panic |-> FALSE, stream |-> <<c.mode, c.block, iv>>, hmac |-> c.hmac]
    ELSE IF c.hash = "nil"
         THEN [panic |-> TRUE, stream |-> Nil, hmac |-> Nil]
         ELSE LET dkLen == 2 * c.kLen
                  dk == hkdf(c.p1k, iv, dkLen + BlockSize, c.hash, p1i)
                  k == rekey(c, Slice(dk, 0, c.kLen), Slice(dk, c.kLen, dkLen))
              IN [panic |-> FALSE,
                  stream |-> <<c.mode, k.block, Slice(dk, dkLen, dkLen + BlockSize)>>,
                  hmac |-> IF c.hmac # Nil THEN c.hmac ELSE k.hmac]

\* a cipher that derives the keys of page 1 from the IV alone
cipher_NoSecret(c, n, iv) ==
    IF n > 1
    THEN IF c.hmac = Nil
         THEN [panic |-> TRUE, stream |-> Nil, hmac |-> Nil]
         ELSE [panic |-> FALSE, stream |-> <<c.mode, c.block, iv>>, hmac |-> c.hmac]
    ELSE IF c.hash = "nil"
         THEN [panic |-> TRUE, stream |-> Nil, hmac |-> Nil]
         ELSE LET dkLen == 2 * c.kLen
                  dk == hkdf(<<>>, iv, dkLen + BlockSize, c.hash, p1i)
                  k == rekey(c, Slice(dk, 0, c.kLen), Slice(dk, c.kLen, dkLen))
              IN [panic |-> FALSE,
                  stream |-> <<c.mode, k.block, Slice(dk, dkLen, dkLen + BlockSize)>>,
                  hmac |-> k.hmac]

\* cipher returns the stream cipher and HMAC hash for page n; it panics when
\* c.hmac is a nil interface (n > 1) or c.hash is a nil func (n = 1)
cipher(c, n, iv) ==
    IF n > 1
    THEN IF c.hmac = Nil
         THEN [panic |-> TRUE, stream |-> Nil, hmac |-> Nil]
         ELSE [panic |-> FALSE, stream |-> <<c.mode, c.block, iv>>, hmac |-> c.hmac]
    ELSE IF c.hash = "nil"
         THEN [panic |-> TRUE, stream |-> Nil, hmac |-> Nil]
         ELSE LET dkLen == 2 * c.kLen
                  dk == hkdf(c.p1k, iv, dkLen + BlockSize, c.hash, p1i)
                  k == rekey(c, Slice(dk, 0, c.kLen), Slice(dk, c.kLen, dkLen))
              IN IF k.block # Nil
                 THEN [panic |-> FALSE,
                       stream |-> <<c.mode, k.block, Slice(dk, dkLen, dkLen + BlockSize)>>,
                       hmac |-> k.hmac]
                 ELSE [panic |-> FALSE, stream |-> Nil, hmac |-> Nil]

\* a mac that writes the digest into the IV slot of c.buf
mac_AtIV(c, p, n, h, verify) ==
    LET tag == [i \in 1 .. c.tLen |-> <<"mac", h, n, pAuth(c, p), i>>]
    IN [c |-> [c EXCEPT !.buf = Splice(c.buf, pIVOff(c, c.buf), tag)],
        ok |-> verify /\ tag = pTag(c, p)]

\* what the HKDF output buffer of cipher holds when cipher returns: dk is
\* re-sliced to its first 2*kLen bytes before wipe(dk) is deferred, so the wipe
\* does not reach the derived IV behind them
cipherDk(c, n, iv) ==
    IF n > 1 THEN <<>>
    ELSE Splice(hkdf(c.p1k, iv, 2 * c.kLen + BlockSize, c.hash, p1i), 0,
                Zeros(2 * c.kLen))

\* what the HKDF output buffer of init holds when init returns, for the master
\* key mk and the header bytes hdr: wipe(dk) is deferred on the whole buffer
initDk(c, mk, hdr) == Zeros(Len(hkdf(mk, <<>>, 2 * c.kLen, c.hash, hdr)))

\* a mac that leaves the page number out of the authenticated data
mac_NoPage(c, p, n, h, verify) ==
    LET sum == Digest(h, 0, pAuth(c, p), c.tLen)
        tag == IF c.cap - WordLen * pTagOff(c, c.buf) >= HashSize(c.hash)
               THEN sum ELSE pTag(c, c.buf)
    IN [c |-> [c EXCEPT !.buf = Splice(c.buf, pTagOff(c, c.buf), tag)],
        ok |-> verify /\ tag = pTag(c, p)]

\* mac calculates and optionally verifies the HMAC tag for page p; the digest
\* is written into the tag slot of c.buf.  With p = c.buf (Encode) the
\* authenticated words are read before the tag is written.  h.Sum(tag[:0])
\* appends the whole digest: it lands in c.buf when the capacity behind the tag
\* slot holds it, and in a new array otherwise.
mac(c, p, n, h, verify) ==
    LET sum == Digest(h, n, pAuth(c, p), c.tLen)
        tag == IF c.cap - WordLen * pTagOff(c, c.buf) >= HashSize(c.hash)
               THEN sum ELSE pTag(c, c.buf)
    IN [c |-> [c EXCEPT !.buf = Splice(c.buf, pTagOff(c, c.buf), tag)],
        ok |-> verify /\ tag = pTag(c, p)]

\* an init that derives the keys from the bytes the master-key slot held before
\* the new master key was written
init_Stale(c, p, n, newKey, r) ==
    IF n # 1 THEN [c |-> c, p |-> p, ok |-> FALSE, drew |-> FALSE]
    ELSE IF newKey /\ r = RndFail THEN [c |-> c, p |-> p, ok |-> FALSE, drew |-> FALSE]
    ELSE LET p1 == IF newKey THEN Splice(p, pKeyOff(c, p), rnd(c.kLen, r)) ELSE p
             dk == hkdf(pKey(c, p), <<>>, 2 * c.kLen, c.hash, Slice(p, 0, HdrEnd))
             k == rekey(c, Slice(dk, 0, c.kLen), Slice(dk, c.kLen, 2 * c.kLen))
         IN [c |-> [c EXCEPT !.block = k.block, !.hmac = k.hmac],
             p |-> p1, ok |-> k.block # Nil, drew |-> newKey]

\* an init that accepts every page number
init_AnyPage(c, p, n, newKey, r) ==
    IF newKey /\ r = RndFail THEN [c |-> c, p |-> p, ok |-> FALSE, drew |-> FALSE]
    ELSE LET p1 == IF newKey THEN Splice(p, pKeyOff(c, p), rnd(c.kLen, r)) ELSE p
             dk == hkdf(pKey(c, p1), <<>>, 2 * c.kLen, c.hash, Slice(p1, 0, HdrEnd))
             k == rekey(c, Slice(dk, 0, c.kLen), Slice(dk, c.kLen, 2 * c.kLen))
         IN [c |-> [c EXCEPT !.block = k.block, !.hmac = k.hmac],
             p |-> p1, ok |-> k.block # Nil, drew |-> newKey]

\* init initializes the block cipher and HMAC hash using the page 1 master key
init(c, p, n, newKey, r) ==
    IF n # 1 THEN [c |-> c, p |-> p, ok |-> FALSE, drew |-> FALSE]
    ELSE IF newKey /\ r = RndFail THEN [c |-> c, p |-> p, ok |-> FALSE, drew |-> FALSE]
    ELSE LET p1 == IF newKey THEN Splice(p, pKeyOff(c, p), rnd(c.kLen, r)) ELSE p
             mk == pKey(c, p1)
             hdr == Slice(p1, 0, HdrEnd)
             dk == hkdf(mk, <<>>, 2 * c.kLen, c.hash, hdr)
             k == rekey(c, Slice(dk, 0, c.kLen), Slice(dk, c.kLen, 2 * c.kLen))
         IN [c |-> [c EXCEPT !.block = k.block, !.hmac = k.hmac],
             p |-> p1, ok |-> k.block # Nil, drew |-> newKey]

\* what a call leaves: the codec, the caller's page, the returned buffer, the error
Ret(c, p, out, err, drew) == [c |-> c, p |-> p, out |-> out, err |-> err, drew |-> drew]

\* Encode returns c.buf
EncodeOut(m, p, drew) == Ret(m.c, p, m.c.buf, "ok", drew)

\* an EncodeMac that does not put p[16:24] back
EncodeMac_NoClear(c, p, n, ch, drew) ==
    IF ch.panic THEN Ret(c, p, <<>>, "panic", drew)
    ELSE EncodeOut(mac([c EXCEPT !.buf = XORKeyStream(ch.stream, c.buf, pText(c, p))],
                       XORKeyStream(ch.stream, c.buf, pText(c, p)), n, ch.hmac, FALSE),
                   p, drew)

\* Encode, after init: encrypt-then-MAC with the stream and the HMAC ch
EncodeMac(c, p, n, ch, drew) ==
    IF ch.panic THEN Ret(c, p, <<>>, "panic", drew)
    ELSE LET b1 == XORKeyStream(ch.stream, c.buf, pText(c, p))
             b2 == IF n = 1 THEN Splice(b1, ClrLo, Slice(p, ClrLo, ClrHi)) ELSE b1
         IN EncodeOut(mac([c EXCEPT !.buf = b2], b2, n, ch.hmac, FALSE), p, drew)

\* Encode, after the IV is drawn: i is the outcome of init (of no init when the
\* cipher is set)
EncodeInit(i, n, iv) ==
    IF ~i.ok THEN Ret(i.c, i.p, <<>>, "codec", i.drew)
    ELSE EncodeMac(i.c, i.p, n, cipher(i.c, n, iv), i.drew)

\* an EncodeIV that runs init on every page 1
EncodeIV_Again(c, p, n, rMk) ==
    EncodeInit(IF c.block = Nil \/ n = 1 THEN init(c, p, n, TRUE, rMk)
               ELSE [c |-> c, p |-> p, ok |-> TRUE, drew |-> FALSE],
               n, pIV(c, c.buf))

\* Encode, with the IV drawn into the IV slot of c.buf
EncodeIV(c, p, n, rMk) ==
    EncodeInit(IF c.block = Nil THEN init(c, p, n, TRUE, rMk)
               ELSE [c |-> c, p |-> p, ok |-> TRUE, drew |-> FALSE],
               n, pIV(c, c.buf))

\* an Encode that draws an IV only when its buffer holds none
Encode_KeepIV(c, p, n, rIv, rMk) ==
    IF Len(c.buf) < c.tLen + BlockSize THEN Ret(c, p, <<>>, "panic", FALSE)
    ELSE IF rIv = RndFail THEN Ret(c, p, <<>>, "prng", FALSE)
    ELSE EncodeIV(IF pIV(c, c.buf) # Zeros(BlockSize) THEN c
                  ELSE [c EXCEPT !.buf = Splice(c.buf, pIVOff(c, c.buf),
                                                rnd(BlockSize, rIv))],
                  p, n, rMk)

\* Encode: c.buf is too short for pIV before the first Resize and after Free
Encode(c, p, n, rIv, rMk) ==
    IF Len(c.buf) < c.tLen + BlockSize THEN Ret(c, p, <<>>, "panic", FALSE)
    ELSE IF rIv = RndFail THEN Ret(c, p, <<>>, "prng", FALSE)
    ELSE EncodeIV([c EXCEPT !.buf = Splice(c.buf, pIVOff(c, c.buf), rnd(BlockSize, rIv))],
                  p, n, rMk)

\* Decode, after the page is decrypted: i is the outcome of init (of no init
\* when the cipher is set)
DecodeInit(i) ==
    IF ~i.ok THEN Ret(i.c, i.p, <<>>, "codec", FALSE)
    ELSE Ret(i.c, i.p, <<>>, "ok", FALSE)

\* a DecodeText that runs init on every page 1
DecodeText_Reinit(c, p, n, stream) ==
    LET c1 == IF n = 1 THEN [c EXCEPT !.buf = Copy(c.buf, Slice(p, ClrLo, ClrHi))] ELSE c
        p1 == XORKeyStream(stream, p, pText(c, p))
        p2 == IF n = 1 THEN Splice(p1, ClrLo, Slice(c1.buf, 0, ClrHi - ClrLo)) ELSE p1
    IN DecodeInit(IF c1.block = Nil \/ n = 1 THEN init(c1, p2, n, FALSE, RndFail)
                  ELSE [c |-> c1, p |-> p2, ok |-> TRUE, drew |-> FALSE])

\* Decode, after the tag is verified: decrypt in place, keeping p[16:24] of page 1
DecodeText(c, p, n, stream) ==
    LET c1 == IF n = 1 THEN [c EXCEPT !.buf = Copy(c.buf, Slice(p, ClrLo, ClrHi))] ELSE c
        p1 == XORKeyStream(stream, p, pText(c, p))
        p2 == IF n = 1 THEN Splice(p1, ClrLo, Slice(c1.buf, 0, ClrHi - ClrLo)) ELSE p1
    IN DecodeInit(IF c1.block = Nil THEN init(c1, p2, n, FALSE, RndFail)
                  ELSE [c |-> c1, p |-> p2, ok |-> TRUE, drew |-> FALSE])

\* a DecodeMac that decrypts before it looks at the tag
DecodeMac_Late(m, p, n, stream) ==
    IF ~m.ok THEN Ret(m.c, XORKeyStream(stream, p, pText(m.c, p)), <<>>, "codec", FALSE)
    ELSE DecodeText(m.c, p, n, stream)

\* Decode, with the outcome m of the tag verification
DecodeMac(m, p, n, stream) ==
    IF ~m.ok THEN Ret(m.c, p, <<>>, "codec", FALSE)
    ELSE DecodeText(m.c, p, n, stream)

\* a Decode that reports a c.buf too short for the tag as a failed verification
DecodeCipher_Short(c, p, n, ch) ==
    IF ch.panic \/ ch.hmac = Nil THEN Ret(c, p, <<>>, "panic", FALSE)
    ELSE IF Len(c.buf) < c.tLen THEN Ret(c, p, <<>>, "codec", FALSE)
    ELSE DecodeMac(mac(c, p, n, ch.hmac, TRUE), p, n, ch.stream)

\* Decode, with the stream and the HMAC ch: a nil HMAC and a c.buf that is too
\* short for pTag (before the first Resize) panic
DecodeCipher(c, p, n, ch) ==
    IF ch.panic \/ ch.hmac = Nil \/ Len(c.buf) < c.tLen THEN Ret(c, p, <<>>, "panic", FALSE)
    ELSE DecodeMac(mac(c, p, n, ch.hmac, TRUE), p, n, ch.stream)

\* Decode: in place on p
Decode(c, p, n) == DecodeCipher(c, p, n, cipher(c, n, pIV(c, p)))

\* a Key that returns the master secret c.p1k
Key_P1k(c, mem) == IF c.key THEN [mem EXCEPT !.scheme = "", !.opts = {}] ELSE wipe(mem)

\* Key: c.key is the memory mem given to newAesHmac; a nil slice after Free
Key(c, mem) == IF c.key THEN mem ELSE [scheme |-> "", opts |-> {}, secret |-> <<>>]

\* a Resize that allocates pageSize bytes and no room for the digest
Resize_NoRoom(c, pageSize, reserve) ==
    IF reserve # Reserve(c) \/ c.hash = "nil" THEN [c |-> c, err |-> "panic"]
    ELSE [c |-> [c EXCEPT !.buf = Zeros(pageSize), !.cap = WordLen * pageSize],
          err |-> "ok"]

\* Resize: c.hash is a nil func after Free
Resize(c, pageSize, reserve) ==
    IF reserve # Reserve(c) \/ c.hash = "nil" THEN [c |-> c, err |-> "panic"]
    ELSE [c |-> [c EXCEPT !.buf = Zeros(pageSize),
                          !.cap = WordLen * pageSize - WordLen * c.tLen + HashSize(c.hash)],
          err |-> "ok"]

\* Free: wipe(c.key) ; *c = aesHmac{}
Free(c) == ZeroCodec

\* a Free that drops the key without wiping it
FreeKey_Keep(c, mem) == mem

\* Free: what wipe(c.key) leaves in the memory mem given to newAesHmac
FreeKey(c, mem) == IF c.key THEN wipe(mem) ELSE mem

----------------------------------------------------------------------------
(* go1/sqlite3/sqlite3.go: Conn and Stmt.  SQL text is a sequence of            *)
(* statements, each described by what sqlite3_prepare_v2 makes of it; an         *)
(* argument is its own position in the argument list (a value of a supported     *)
(* type), 0 (nil) or the negated position (a value of an unsupported type).      *)

\* the most parameters and columns of a statement, rows of a result, statements
\* of a script, and arguments beyond the parameters of a statement
MaxVars == 2
MaxCols == 1
MaxRows == 2
MaxStmts == 2

\* a statement that compiles, with nVars parameters and nCols columns
Sql(nVars, nCols) == [kind |-> "stmt", nVars |-> nVars, nCols |-> nCols]
\* text that holds nothing but comments or whitespace, up to the next statement
SqlBlank == [kind |-> "blank", nVars |-> 0, nCols |-> 0]
\* text that does not compile
SqlBad == [kind |-> "bad", nVars |-> 0, nCols |-> 0]

SqlStmts == {Sql(v, c) : v \in 0 .. MaxVars, c \in 0 .. MaxCols} \cup {SqlBlank, SqlBad}
\* the texts given to Conn.Prepare: nothing, one statement, one statement and a tail
PrepScripts == {<<>>} \cup {<<q>> : q \in SqlStmts} \cup {<<q, Sql(0, 0)>> : q \in SqlStmts}

\* the texts given to Conn.Exec
ExecScripts ==
    UNION {[1 .. k -> {Sql(0, 0), Sql(1, MaxCols), Sql(MaxVars, 0), SqlBlank, SqlBad}] :
              k \in 0 .. MaxStmts}

\* the argument lists of length k, with at most one nil or unsupported value
ArgLists(k) ==
    {a \in [1 .. k -> (0 - k) .. k] :
        /\ \A i \in 1 .. k : a[i] \in {i, 0, 0 - i}
        /\ Cardinality({i \in 1 .. k : a[i] # i}) <= 1}

\* the busy callbacks of the application; "nil" is no callback
BusyFuncs == {"nil", "f", "g"}

\* the data type code sqlite3_column_type returns (INTEGER)
ColType == 1

\* the zero value of the Conn struct, and no busy handler on the db; handler is
\* what the db calls when a table is locked: nothing ("none"), the built-in
\* handler of sqlite3_busy_timeout ("timeout") or go_busy_handler with the Conn
\* ("go"), which calls c.busy
\* commit, rollback and update are the other callbacks of the Conn, hooks the
\* hooks of them that the db has installed
NoDbConn ==
    [db |-> 0, busy |-> "nil", handler |-> "none", commit |-> "nil", rollback |-> "nil",
     update |-> "nil", hooks |-> {}]

\* the zero value of the Stmt struct
NilStmt ==
    [Tail |-> <<>>, conn |-> 0, stmt |-> 0, text |-> <<>>, nVars |-> 0, nCols |-> 0,
     haveRow |-> FALSE, varNames |-> "nil", colNames |-> "nil", colDecls |-> "nil",
     colTypes |-> <<>>]

\* the sqlite3_stmt: state is "none" (there is none), "init" (ready to run),
\* "row" (on a row) or "final" (finalized); sql is the text it was made from, pos
\* counts the rows of the current run, bound holds the parameters with a value
NoVm == [state |-> "none", sql |-> <<>>, pos |-> 0, bound |-> {}]

\* call: valid0, busy0, nVars0 are Valid(), Busy() and NumParams() before the
\* call; o is what sqlite3_step returned, steps the sqlite3_step calls made;
\* misused tells that an Exec or Query with a wrong number of arguments was made
\* on the statement before; prev is the callback BusyTimeout or BusyFunc
\* returned and reg0 the Go callback the db would call before the call; for
\* Conn.Exec, os is what sqlite3_step returns for each statement of sql, log
\* lists the statements executed and the arguments each got, left counts the
\* arguments not consumed
NoCall ==
    [op |-> "none", err |-> "nil", msg |-> "", steps |-> 0, o |-> "none", args |-> <<>>,
     sql |-> <<>>, valid0 |-> FALSE, busy0 |-> FALSE, nVars0 |-> 0, misused |-> FALSE,
     prev |-> "nil", reg0 |-> "nil", f |-> "nil", d |-> 0, log |-> <<>>, left |-> 0,
     os |-> <<>>, ret |-> <<>>, val |-> <<>>]

\* what a Stmt method leaves: the struct, the sqlite3_stmt, the error, its
\* message, the number of sqlite3_step calls
Out(s, v, err, msg, steps) == [s |-> s, vm |-> v, err |-> err, msg |-> msg, steps |-> steps]

sqlite3_reset(v) == [v EXCEPT !.state = "init", !.pos = 0]
sqlite3_clear_bindings(v) == [v EXCEPT !.bound = {}]

\* what sqlite3_step can return: SQLITE_ROW from a statement with columns that
\* has rows left, SQLITE_DONE, or an error
StepOut(v) ==
    {"done", "error"}
    \cup (IF v.state \in {"init", "row"} /\ v.sql # <<>> /\ v.sql[1].nCols > 0
             /\ v.pos < MaxRows
          THEN {"row"} ELSE {})

\* Valid, Busy, NumParams, NumColumns, Conn
Valid(s) == s.stmt # 0
Busy(s) == s.haveRow
NumParams(s) == s.nVars
NumColumns(s) == s.nCols
StmtConn(s) == s.conn

\* newStmt creates a new prepared statement from the first statement of sql
newStmt(c, sql) ==
    IF sql # <<>> /\ sql[1].kind = "bad" THEN [s |-> NilStmt, vm |-> NoVm, err |-> "lib"]
    ELSE IF sql = <<>> \/ sql[1].kind = "blank"
    THEN [s |-> [NilStmt EXCEPT !.conn = c, !.Tail = IF sql = <<>> THEN <<>> ELSE Tail(sql)],
          vm |-> NoVm, err |-> "nil"]
    ELSE [s |-> [NilStmt EXCEPT !.conn = c, !.stmt = 1, !.Tail = Tail(sql),
                                !.nVars = sql[1].nVars, !.nCols = sql[1].nCols,
                                !.colTypes = [i \in 1 .. sql[1].nCols |-> 0]],
          vm |-> [state |-> "init", sql |-> <<sql[1]>>, pos |-> 0, bound |-> {}],
          err |-> "nil"]

\* Reset returns the prepared statement to its initial state
StmtReset(s, v) ==
    IF s.haveRow
    THEN Out([s EXCEPT !.haveRow = FALSE],
             IF s.nVars > 0 THEN sqlite3_clear_bindings(sqlite3_reset(v))
             ELSE sqlite3_reset(v),
             "nil", "", 0)
    ELSE Out(s, v, "nil", "", 0)

\* step evaluates the next step of the statement's program, resetting the
\* statement when the result o is anything other than SQLITE_ROW
step(s, v, o) ==
    IF o = "row"
    THEN Out([s EXCEPT !.haveRow = TRUE, !.colTypes = [i \in 1 .. Len(@) |-> 0]],
             [v EXCEPT !.state = "row", !.pos = @ + 1], "nil", "", 1)
    ELSE Out([s EXCEPT !.haveRow = FALSE],
             IF s.nVars > 0 THEN sqlite3_clear_bindings(sqlite3_reset(v))
             ELSE sqlite3_reset(v),
             IF o = "error" THEN "lib" ELSE "nil", "", 1)

\* bind binds statement parameter i to the value a: nil leaves it unbound, a
\* value of an unsupported type is refused
bind(v, i, a) ==
    IF a = 0 THEN [vm |-> v, err |-> "nil", msg |-> ""]
    ELSE IF a < 0 THEN [vm |-> v, err |-> "MISUSE", msg |-> "unsupported type"]
    ELSE [vm |-> [v EXCEPT !.bound = @ \cup {i}], err |-> "nil", msg |-> ""]

\* the loop of bindUnnamed from argument i on
RECURSIVE bindFrom(_, _, _)
bindFrom(v, args, i) ==
    IF i > Len(args) THEN [vm |-> v, err |-> "nil", msg |-> ""]
    ELSE IF bind(v, i, args[i]).err # "nil" THEN bind(v, i, args[i])
    ELSE bindFrom(bind(v, i, args[i]).vm, args, i + 1)

\* a bindUnnamed that binds the arguments it is given, however many
bindUnnamed_Lax(s, v, args) ==
    bindFrom(v, SubSeq(args, 1, IF Len(args) < s.nVars THEN Len(args) ELSE s.nVars), 1)

\* bindUnnamed binds statement parameters using successive values in args
bindUnnamed(s, v, args) ==
    IF Len(args) # s.nVars
    THEN [vm |-> v, err |-> "MISUSE", msg |-> "statement requires"]
    ELSE bindFrom(v, args, 1)

\* exec, after the reset r and the binding b: the first step, with result o
StmtExecBound(r, b, o) ==
    IF b.err # "nil"
    THEN Out(r.s, IF r.s.nVars > 0 THEN sqlite3_clear_bindings(b.vm) ELSE b.vm,
             b.err, b.msg, 0)
    ELSE step(r.s, b.vm, o)

\* exec, after the reset r
StmtExecReset(r, args, o) == StmtExecBound(r, bindUnnamed(r.s, r.vm, args), o)

\* exec resets the prepared statement, binds new parameter values, and executes
\* the first step
stmt_exec(s, v, args, o) == StmtExecReset(StmtReset(s, v), args, o)

\* Exec, after exec returned e
StmtExecDone(e) ==
    IF e.s.haveRow THEN [StmtReset(e.s, e.vm) EXCEPT !.err = e.err, !.msg = e.msg,
                                                    !.steps = e.steps]
    ELSE e

\* Exec executes and resets the prepared statement
StmtExec(s, v, args, o) ==
    IF s.stmt = 0 THEN Out(s, v, "ErrBadStmt", "", 0)
    ELSE StmtExecDone(stmt_exec(s, v, args, o))

\* Query, after exec returned e
StmtQueryDone(e) ==
    IF ~e.s.haveRow /\ e.err = "nil" THEN [e EXCEPT !.err = "EOF"] ELSE e

\* Query executes the prepared statement and makes the first row available
StmtQuery(s, v, args, o) ==
    IF s.stmt = 0 THEN Out(s, v, "ErrBadStmt", "", 0)
    ELSE StmtQueryDone(stmt_exec(s, v, args, o))

\* Next, after step returned e
StmtNextDone(e) ==
    IF e.err # "nil" THEN e
    ELSE IF e.s.haveRow THEN e
    ELSE [e EXCEPT !.err = "EOF"]

\* a Next that steps the statement whether it has a row or not
StmtNext_Always(s, v, o) == StmtNextDone(step(s, v, o))

\* Next makes the next row available for scanning
StmtNext(s, v, o) ==
    IF s.haveRow THEN StmtNextDone(step(s, v, o))
    ELSE Out(s, v, "EOF", "", 0)

\* Scan retrieves data from the current row into n destinations of supported
\* types; colType loads the data type of each column it reads
StmtScan(s, v, n) ==
    IF ~s.haveRow THEN Out(s, v, "EOF", "", 0)
    ELSE IF n = 0 THEN Out(s, v, "nil", "", 0)
    ELSE IF n > s.nCols THEN Out(s, v, "MISUSE", "cannot assign", 0)
    ELSE Out([s EXCEPT !.colTypes = [i \in 1 .. Len(@) |-> IF i <= n THEN ColType ELSE @[i]]],
             v, "nil", "", 0)

\* DataTypes returns the data type codes of the columns in the current row, nil
\* (the empty sequence) when there is no row
DataTypes(s) ==
    IF ~s.haveRow THEN [s |-> s, ret |-> <<>>]
    ELSE [s |-> [s EXCEPT !.colTypes = [i \in 1 .. Len(@) |-> ColType]],
          ret |-> [i \in 1 .. Len(s.colTypes) |-> ColType]]

\* String, Params, Columns and DeclTypes load the text and the names on their
\* first call; the parameters of the model's statements have no names
StmtInfo(s, v) ==
    [s EXCEPT !.text = IF @ = <<>> /\ s.stmt # 0 THEN v.sql ELSE @,
              !.varNames = IF @ = "nil" /\ s.nVars > 0 THEN "unnamedVars" ELSE @,
              !.colNames = IF @ = "nil" /\ s.nCols > 0 THEN "names" ELSE @,
              !.colDecls = IF @ = "nil" /\ s.nCols > 0 THEN "decls" ELSE @]

\* a Close that finalizes the statement and keeps the fields of the struct
StmtClose_Keep(s, v, rc) ==
    IF s.stmt # 0
    THEN Out([s EXCEPT !.stmt = 0],
             [v EXCEPT !.state = "final", !.pos = 0, !.bound = {}],
             IF rc # "ok" THEN "lib" ELSE "nil", "", 0)
    ELSE Out(s, v, "nil", "", 0)

\* Close releases all resources associated with the prepared statement; rc is
\* what sqlite3_finalize returns
StmtClose(s, v, rc) ==
    IF s.stmt # 0
    THEN Out([s EXCEPT !.stmt = 0, !.nVars = 0, !.nCols = 0, !.haveRow = FALSE,
                       !.varNames = "nil", !.colNames = "nil", !.colDecls = "nil",
                       !.colTypes = <<>>],
             [v EXCEPT !.state = "final", !.pos = 0, !.bound = {}],
             IF rc # "ok" THEN "lib" ELSE "nil", "", 0)
    ELSE Out(s, v, "nil", "", 0)

----------------------------------------------------------------------------
(* The host: pages it hands to the codec *)

\* a plain page: every word is v
PlainPage(v) == Fill(PageSize, v)

\* one bit of a word changed; changing it again restores the word
FlipWord(w) == IF w[1] = "f" THEN w[2] ELSE <<"f", w>>
Flip(p, f) == [i \in 1 .. Len(p) |-> IF i = f THEN FlipWord(p[i]) ELSE p[i]]

\* disk: q is the copy of the page Encode returned for page n on codec by;
\* p0 and p1 are the page given to that Encode, before and after the call
NoDisk == [n |-> 0, by |-> 0, q |-> <<>>, p0 |-> <<>>, p1 |-> <<>>, fresh |-> FALSE]
\* hist: mkGen counts the master keys the instance drew; iniBy names the call that
\* set its cipher, mk and hdr the master key and header bytes it was set from;
\* held tells that the buffer its last Encode returned is still its buffer, clean
\* that no Decode ran since; wrote that it has encoded a page
NoHist == [mkGen |-> 0, iniBy |-> "none", mk |-> <<>>, hdr |-> <<>>, held |-> FALSE,
           clean |-> FALSE, resized |-> FALSE, wrote |-> FALSE]
\* res: ini0 tells whether the codec's cipher was set before the call, p0 is the
\* page handed to the call, drew that the call generated a master key, ret what
\* the call returned (the codec's buffer, the page pointer or null), via and bits
\* the callback that made the call and its op argument
NoRes == [op |-> "none", id |-> 0, n |-> 0, err |-> "ok", p0 |-> <<>>, ini0 |-> FALSE,
          drew |-> FALSE, ret |-> "none", flip |-> 0, src |-> "none", rIv |-> 0, rMk |-> 0,
          via |-> "none", bits |-> 0, reserve |-> 0, msg |-> "", key |-> WipedKey]

\* the pagers of the model: 1 has pages of 512 bytes, 3 is an in-memory database
Pagers == {1, 2, 3}
\* the connections that run callbacks in parallel
Conns == {1, 2}
\* 512, the smallest page size, in words
MinPageSize == 64
\* 480, the usable bytes every page must keep, in words
MinUsable == 60

\* pager: codec is the wrapper installed on it (0: none)
NoPager(pg) ==
    [codec |-> 0, pageSize |-> IF pg = 1 THEN MinPageSize ELSE PageSize, reserve |-> 0,
     memDb |-> (pg = 3)]
\* conn: pc is the position of the connection's callback, id the wrapper it works
\* on, snap the set it read when its access to codecs began, raced that another
\* access overlapped with it
NoConn == [pc |-> "idle", id |-> 0, snap |-> {}, raced |-> FALSE]
\* obs: published holds the wrappers go_codec_init returned and go_codec_free was
\* not called on; freed counts the go_codec_free calls on a wrapper since it was
\* made; op, pg, ptr, rc describe the last callback and what it returned, msg the
\* error message it left on the connection; fatal tells that the run ended in
\* the runtime's fatal error; ci what the CodecFunc gave the last attachment
\* ("none": no CodecFunc, "nil", "codec"; "memdb": it was not asked)
NoObs ==
    [published |-> {}, freed |-> [id \in CodecIds |-> 0], op |-> "none", pg |-> 0,
     ptr |-> 0, rc |-> "ok", msg |-> "", fatal |-> FALSE, ci |-> "none"]

Live(id) == inst[id].key
\* a panic aborts the process; a run ends when it has seen a changed page rejected
Running == res.err # "panic" /\ res.flip = 0

Init ==
    /\ inst = [id \in CodecIds |-> ZeroCodec]
    /\ keymem = [id \in CodecIds |-> WipedKey]
    /\ appkey \in {KeyDesc(opts) : opts \in OptSets}
    /\ disk = NoDisk
    /\ page = <<>>
    /\ res = NoRes
    /\ hist = [id \in CodecIds |-> NoHist]
    /\ codecs = {}
    /\ pager = [pg \in Pagers |-> NoPager(pg)]
    /\ conn = [k \in Conns |-> NoConn]
    /\ obs = NoObs
    /\ dbconn = NoDbConn
    /\ stmt = NilStmt
    /\ vm = NoVm
    /\ call = NoCall

\* the constructor: id names a new instance when the one before it was freed
New(id) ==
    /\ Running /\ ~Live(id)
    /\ \E order \in Orders(appkey.opts) :
        LET key == appkey
            r == newAesHmac(key, order)
        IN /\ inst' = [inst EXCEPT ![id] = r.c]
           /\ keymem' = [keymem EXCEPT ![id] = key]
           /\ res' = [NoRes EXCEPT !.op = "new", !.id = id, !.err = r.err, !.msg = r.msg]
    /\ hist' = [hist EXCEPT ![id] = NoHist]
    /\ UNCHANGED <<appkey, disk, page>>
    /\ UNCHANGED shim
    /\ UNCHANGED api

\* the constructor, given the key descriptor of another application: the same
\* scheme and options with a different secret
NewOther(id) ==
    /\ Running /\ ~Live(id)
    /\ \E order \in Orders(appkey.opts) :
        LET key == [appkey EXCEPT !.secret = Fill(Len(appkey.secret), 0)]
            r == newAesHmac(key, order)
        IN /\ inst' = [inst EXCEPT ![id] = r.c]
           /\ keymem' = [keymem EXCEPT ![id] = key]
           /\ res' = [NoRes EXCEPT !.op = "new", !.id = id, !.err = r.err, !.msg = r.msg]
    /\ hist' = [hist EXCEPT ![id] = NoHist]
    /\ UNCHANGED <<appkey, disk, page>>
    /\ UNCHANGED shim
    /\ UNCHANGED api

DoResize(id) ==
    /\ Running /\ Live(id)
    /\ \E reserve \in {Reserve(inst[id]), 0} :
        LET r == Resize(inst[id], PageSize, reserve)
        IN /\ inst' = [inst EXCEPT ![id] = r.c]
           /\ res' = [NoRes EXCEPT !.op = "resize", !.id = id, !.err = r.err,
                                   !.ini0 = inst[id].block # Nil, !.reserve = reserve]
           /\ hist' = [hist EXCEPT ![id].held = @ /\ r.err # "ok",
                                   ![id].clean = @ /\ r.err # "ok",
                                   ![id].resized = @ \/ r.err = "ok"]
    /\ UNCHANGED <<appkey, keymem, disk, page>>
    /\ UNCHANGED shim
    /\ UNCHANGED api

\* the state after r == Encode(inst[id], p, n, rIv, rMk)
EncodeStep(id, p, n, rIv, rMk, via, op, r, init0) ==
    /\ inst' = [inst EXCEPT ![id] = r.c]
    /\ page' = r.p
    /\ disk' = IF r.err = "ok"
               THEN [n |-> n, by |-> id, q |-> r.out, p0 |-> p, p1 |-> r.p,
                     fresh |-> r.drew]
               ELSE disk
    /\ res' = [NoRes EXCEPT !.op = "encode", !.id = id, !.n = n, !.err = r.err,
                            !.p0 = p, !.ini0 = inst[id].block # Nil, !.drew = r.drew,
                            !.ret = IF r.err = "ok" THEN "buf" ELSE "null",
                            !.rIv = rIv, !.rMk = rMk, !.via = via, !.bits = op]
    /\ hist' = [hist EXCEPT
                   ![id].mkGen = IF r.drew /\ @ < MaxGen THEN @ + 1 ELSE @,
                   ![id].iniBy = IF init0 THEN "encode" ELSE @,
                   ![id].mk = IF init0 THEN pKey(r.c, r.p) ELSE @,
                   ![id].hdr = IF init0 THEN Slice(r.p, 0, HdrEnd) ELSE @,
                   ![id].held = (r.err = "ok"),
                   ![id].clean = (r.err = "ok"),
                   ![id].wrote = @ \/ r.err = "ok"]
    /\ UNCHANGED <<appkey, keymem>>
    /\ UNCHANGED shim
    /\ UNCHANGED api

\* the call set the cipher of instance id
Inits(id, r) == inst[id].block = Nil /\ r.c.block # Nil

CallEncode(id, p, n, rIv, rMk, via, op, r) ==
    EncodeStep(id, p, n, rIv, rMk, via, op, r, Inits(id, r))

\* the state after r == Decode(inst[id], p, n); ret is what the caller hands back
DecodeStep(id, p, n, f, src, via, op, r, init0) ==
    /\ inst' = [inst EXCEPT ![id] = r.c]
    /\ page' = r.p
    /\ res' = [NoRes EXCEPT !.op = "decode", !.id = id, !.n = n, !.err = r.err,
                            !.p0 = p, !.ini0 = inst[id].block # Nil,
                            !.ret = IF r.err = "ok" \/ (via = "exec1" /\ r.err # "panic")
                                    THEN "page" ELSE "null",
                            !.flip = f, !.src = src, !.via = via, !.bits = op]
    /\ hist' = [hist EXCEPT
                   ![id].iniBy = IF init0 THEN "decode" ELSE @,
                   ![id].mk = IF init0 THEN pKey(r.c, r.p) ELSE @,
                   ![id].hdr = IF init0 THEN Slice(r.p, 0, HdrEnd) ELSE @,
                   ![id].clean = FALSE]
    /\ UNCHANGED <<appkey, keymem, disk>>
    /\ UNCHANGED shim
    /\ UNCHANGED api

CallDecode(id, p, n, f, src, via, op, r) ==
    DecodeStep(id, p, n, f, src, via, op, r, Inits(id, r))

\* the pages the host encodes: a fresh plain page, or the buffer that the last
\* successful call left
HostPages ==
    {PlainPage(v) : v \in Words}
    \cup (IF res.op \in {"encode", "decode"} /\ res.err = "ok" THEN {page} ELSE {})

\* a direct call of Encode
DoEncode(id, R) ==
    /\ Running /\ Live(id)
    /\ \E n \in Pages, rIv \in R, rMk \in R, p \in HostPages :
        CallEncode(id, p, n, rIv, rMk, "direct", 0, Encode(inst[id], p, n, rIv, rMk))

\* a direct call of Decode, at page number n, on a copy of the page on disk with
\* word f changed (f = 0: unchanged)
DoDecode(id, F) ==
    /\ Running /\ Live(id) /\ disk # NoDisk
    /\ \E n \in Pages, f \in F :
        /\ f # 0 => n = disk.n
        /\ CallDecode(id, Flip(disk.q, f), n, f, "disk", "direct", 0,
                      Decode(inst[id], Flip(disk.q, f), n))

\* a direct call of Encode of a plain page at a page number of N, with a
\* CSPRNG that works
DoEncodeAt(id, N) ==
    /\ Running /\ Live(id)
    /\ \E n \in N, r \in 1 .. MaxRnd, v \in Words :
        CallEncode(id, PlainPage(v), n, r, r, "direct", 0,
                   Encode(inst[id], PlainPage(v), n, r, r))

\* a direct call of Decode, at a page number of N, on a copy of the page on disk
DoDecodeAt(id, N) ==
    /\ Running /\ Live(id) /\ disk # NoDisk
    /\ \E n \in N :
        CallDecode(id, disk.q, n, 0, "disk", "direct", 0, Decode(inst[id], disk.q, n))

DoKey(id) ==
    /\ Running /\ Live(id)
    /\ res' = [NoRes EXCEPT !.op = "key", !.id = id, !.ini0 = inst[id].block # Nil,
                            !.key = Key(inst[id], keymem[id])]
    /\ UNCHANGED <<inst, appkey, keymem, disk, page, hist>>
    /\ UNCHANGED shim
    /\ UNCHANGED api

DoFree(id) ==
    /\ Running /\ Live(id)
    /\ inst' = [inst EXCEPT ![id] = Free(inst[id])]
    /\ keymem' = [keymem EXCEPT ![id] = FreeKey(inst[id], keymem[id])]
    /\ res' = [NoRes EXCEPT !.op = "free", !.id = id, !.ini0 = inst[id].block # Nil]
    /\ hist' = [hist EXCEPT ![id].held = FALSE, ![id].clean = FALSE]
    /\ UNCHANGED <<appkey, disk, page>>
    /\ UNCHANGED shim
    /\ UNCHANGED api

----------------------------------------------------------------------------
(* go1/sqlite3/codec.go: the exec callback, in the two variants of the file *)

\* op & 4
BitAnd4(op) == ((op \div 4) % 2) * 4

\* the op values the pager passes: 3 to decode, 6 and 7 to encode
OpBits == {3, 6, 7}

\* go_codec_exec, first variant: if op&4 == 0 { Decode } else { Encode }
go_codec_exec(op) == IF BitAnd4(op) = 0 THEN "decode" ELSE "encode"

\* go_codec_exec, second variant: if op&4 == 1 { Encode } else { Decode }
go_codec_exec_v2(op) == IF BitAnd4(op) = 1 THEN "encode" ELSE "decode"

\* the pager calls the exec callback: with op = 3 on a page read from disk, with
\* op = 6 or 7 on a page of its cache
Exec(id, via, dir, op, n, p, r) ==
    IF dir = "encode"
    THEN CallEncode(id, p, n, r, r, via, op, Encode(inst[id], p, n, r, r))
    ELSE CallDecode(id, p, n, 0, IF op = 3 THEN "disk" ELSE "cache", via, op,
                    Decode(inst[id], p, n))

DoExec(id, R) ==
    /\ Running /\ Live(id)
    /\ \E op \in OpBits, n \in Pages, r \in R :
       \E p \in (IF op # 3 THEN HostPages ELSE IF disk # NoDisk THEN {disk.q} ELSE {}) :
        Exec(id, "exec1", go_codec_exec(op), op, n, p, r)

DoExec2(id, R) ==
    /\ Running /\ Live(id)
    /\ \E op \in OpBits, n \in Pages, r \in R :
       \E p \in (IF op # 3 THEN HostPages ELSE IF disk # NoDisk THEN {disk.q} ELSE {}) :
        Exec(id, "exec2", go_codec_exec_v2(op), op, n, p, r)

----------------------------------------------------------------------------
(* go1/sqlite3/codec.go and lib/codec.c: the init and free callbacks, attachment *)

\* the status codes of the host: SQLITE_OK and an error
Status == {"ok", "error"}

\* the key descriptors a connection attaches with: the application's, and one
\* without a secret, which no constructor accepts
AttachKeys == {appkey, [appkey EXCEPT !.secret = <<>>]}

\* a go_codec_init that records the wrapper before it knows there is a codec
go_codec_init_Early(set, id, configured, key, order) ==
    IF ~configured
    THEN [ptr |-> 0, nNewRes |-> 0, codecs |-> set, c |-> ZeroCodec, mem |-> key,
          ci |-> "none"]
    ELSE IF newAesHmac(key, order).err = "ok"
    THEN [ptr |-> id, nNewRes |-> Reserve(newAesHmac(key, order).c),
          codecs |-> set \cup {id}, c |-> newAesHmac(key, order).c, mem |-> key,
          ci |-> "codec"]
    ELSE [ptr |-> 0, nNewRes |-> 0, codecs |-> set \cup {id}, c |-> ZeroCodec, mem |-> key,
          ci |-> "nil"]

\* go_codec_init: no codec when the connection has no CodecFunc (configured is
\* false) or the CodecFunc returns nil; otherwise the wrapper id is added to
\* codecs and returned with the reserve of its codec.  The CodecFunc is the
\* constructor newAesHmac, called with the Go copy mem of the key.  ci tells
\* what the CodecFunc gave: "none" when there is no CodecFunc.
go_codec_init(set, id, configured, key, order) ==
    IF ~configured
    THEN [ptr |-> 0, nNewRes |-> 0, codecs |-> set, c |-> ZeroCodec, mem |-> key,
          ci |-> "none"]
    ELSE IF newAesHmac(key, order).err = "ok"
    THEN [ptr |-> id, nNewRes |-> Reserve(newAesHmac(key, order).c),
          codecs |-> set \cup {id}, c |-> newAesHmac(key, order).c, mem |-> key,
          ci |-> "codec"]
    ELSE [ptr |-> 0, nNewRes |-> 0, codecs |-> set, c |-> ZeroCodec, mem |-> key,
          ci |-> "nil"]

\* go_codec_free on the wrapper g.ptr: delete(codecs, cs) ; cs.Free() ; cs.Codec = nil
go_codec_free(g) ==
    [g EXCEPT !.codecs = g.codecs \ {g.ptr}, !.c = Free(g.c), !.mem = FreeKey(g.c, g.mem)]

\* what sqlite3CodecAttach leaves: its status, the pager, the outcome g of
\* go_codec_init, the number of go_codec_free calls it made
AttachRet(rc, pgr, g, nfree) == [rc |-> rc, pager |-> pgr, g |-> g, nfree |-> nfree]

\* sqlite3PagerSetCodec: the codec is installed and told the page size
PagerSetCodec(pgr, g) ==
    AttachRet("ok", [pgr EXCEPT !.codec = g.ptr],
              [g EXCEPT !.c = Resize(g.c, pgr.pageSize, pgr.reserve).c], 0)

\* a sqlite3CodecAttach that forgets the codec when the reserve cannot be set
AttachCodec_Leak(pgr, g, rcInit, rcSet) ==
    IF g.ptr = 0 THEN AttachRet(rcInit, pgr, g, 0)
    ELSE IF rcInit # "ok" THEN AttachRet(rcInit, pgr, go_codec_free(g), 1)
    ELSE IF g.nNewRes >= 0 /\ g.nNewRes # pgr.reserve
    THEN IF rcSet # "ok" THEN AttachRet(rcSet, pgr, g, 0)
         ELSE PagerSetCodec([pgr EXCEPT !.reserve = g.nNewRes], g)
    ELSE PagerSetCodec(pgr, g)

\* sqlite3CodecAttach, after go_codec_init returned rcInit and g; rcSet is what
\* sqlite3BtreeSetPageSize returns when it is called
AttachCodec(pgr, g, rcInit, rcSet) ==
    IF g.ptr = 0 THEN AttachRet(rcInit, pgr, g, 0)
    ELSE IF rcInit # "ok" THEN AttachRet(rcInit, pgr, go_codec_free(g), 1)
    ELSE IF g.nNewRes >= 0 /\ g.nNewRes # pgr.reserve
    THEN IF rcSet # "ok" THEN AttachRet(rcSet, pgr, go_codec_free(g), 1)
         ELSE PagerSetCodec([pgr EXCEPT !.reserve = g.nNewRes], g)
    ELSE PagerSetCodec(pgr, g)

\* a sqlite3CodecAttach that asks for a codec on an in-memory database too
sqlite3CodecAttach_Mem(pgr, set, id, configured, key, order, rcInit, rcSet) ==
    AttachCodec(pgr, go_codec_init(set, id, configured, key, order), rcInit, rcSet)

\* sqlite3CodecAttach: nothing happens for an in-memory database (ci is "memdb")
sqlite3CodecAttach(pgr, set, id, configured, key, order, rcInit, rcSet) ==
    IF pgr.memDb
    THEN AttachRet("ok", pgr,
                   [ptr |-> 0, nNewRes |-> 0, codecs |-> set, c |-> ZeroCodec, mem |-> key,
                    ci |-> "memdb"], 0)
    ELSE AttachCodec(pgr, go_codec_init(set, id, configured, key, order), rcInit, rcSet)

\* the state after a == sqlite3CodecAttach(pager[pg], ...), which was given the
\* unused wrapper address id
AttachStep(pg, id, a) ==
    /\ pager' = [pager EXCEPT ![pg] = a.pager]
    /\ codecs' = a.g.codecs
    /\ inst' = [inst EXCEPT ![id] = IF a.g.ptr # 0 THEN a.g.c ELSE @]
    /\ keymem' = [keymem EXCEPT ![id] = IF a.g.ptr # 0 THEN a.g.mem ELSE @]
    /\ hist' = [hist EXCEPT ![id] = IF a.g.ptr # 0
                                    THEN [NoHist EXCEPT !.resized = (a.pager.codec # 0)]
                                    ELSE @]
    /\ obs' = [obs EXCEPT
                  !.published = IF a.g.ptr # 0 /\ a.nfree = 0 THEN @ \cup {id} ELSE @,
                  !.freed = IF a.g.ptr # 0 THEN [@ EXCEPT ![id] = a.nfree] ELSE @,
                  !.op = "attach", !.pg = pg, !.ptr = a.g.ptr, !.rc = a.rc, !.ci = a.g.ci]
    /\ UNCHANGED <<appkey, disk, page, res, conn>>
    /\ UNCHANGED api

\* the status go_codec_init hands to sqlite3CodecAttach (codec.c:8, 82): OK when
\* the connection has no CodecFunc
InitRc(configured) == IF configured THEN Status ELSE {"ok"}

\* sqlite3_key_v2 on a database whose pager has no codec yet
DoAttach(pg) ==
    /\ pager[pg].codec = 0
    /\ \E id \in CodecIds, configured \in BOOLEAN, key \in AttachKeys, rcSet \in Status :
        /\ ~Live(id) /\ id \notin codecs
        /\ \E order \in Orders(key.opts), rcInit \in InitRc(configured) :
            AttachStep(pg, id, sqlite3CodecAttach(pager[pg], codecs, id, configured, key,
                                                  order, rcInit, rcSet))

\* the state after f == go_codec_free(...) on the wrapper id
FreeStep(id, f) ==
    /\ codecs' = f.codecs
    /\ inst' = [inst EXCEPT ![id] = f.c]
    /\ keymem' = [keymem EXCEPT ![id] = f.mem]
    /\ obs' = [obs EXCEPT !.published = @ \ {id},
                          !.freed = [@ EXCEPT ![id] = IF @ < 2 THEN @ + 1 ELSE @],
                          !.op = "free", !.ptr = id, !.rc = "ok"]

\* the pager is destroyed: it calls the free callback of its codec
PagerClose(pg) ==
    /\ pager[pg].codec # 0
    /\ FreeStep(pager[pg].codec,
                go_codec_free([ptr |-> pager[pg].codec, nNewRes |-> 0, codecs |-> codecs,
                               c |-> inst[pager[pg].codec],
                               mem |-> keymem[pager[pg].codec]]))
    /\ pager' = [pager EXCEPT ![pg].codec = 0]
    /\ UNCHANGED <<appkey, disk, page, res, hist, conn>>
    /\ UNCHANGED api

----------------------------------------------------------------------------
(* lib/codec.c: sqlite3_rekey and sqlite3_rekey_v2, and the pager's use of the  *)
(* exec callback of the codec installed on it                                   *)

\* the connection: its pagers, the codec instances and the key memory behind
\* the wrappers, the set codecs
Db == [pager |-> pager, inst |-> inst, keymem |-> keymem, codecs |-> codecs]

\* a sqlite3_rekey_v2 that gives the codec of the database the new key
sqlite3_rekey_v2_Swap(db, pg, key) ==
    IF db.pager[pg].codec = 0
    THEN [rc |-> "error", msg |-> "rekey is not implemented", db |-> db]
    ELSE [rc |-> "ok", msg |-> "",
          db |-> [db EXCEPT !.inst[db.pager[pg].codec].p1k = key.secret,
                            !.inst[db.pager[pg].codec].block = Nil,
                            !.inst[db.pager[pg].codec].hmac = Nil,
                            !.keymem[db.pager[pg].codec] = key]]

\* sqlite3_rekey_v2 on the database of pager pg (zDbName) with the new key:
\* rc = SQLITE_ERROR, the message is set on the connection, nothing else is
\* done.  sqlite3_rekey is the same call for the main database.
sqlite3_rekey_v2(db, pg, key) ==
    [rc |-> "error", msg |-> "rekey is not implemented", db |-> db]

\* the new keys a connection asks for: the current one, one with another secret
\* and one without a secret
RekeyKeys == AttachKeys \cup {[appkey EXCEPT !.secret = Fill(2, 0)]}

\* the state after r == sqlite3_rekey_v2(Db, pg, key)
RekeyStep(pg, r) ==
    /\ pager' = r.db.pager
    /\ inst' = r.db.inst
    /\ keymem' = r.db.keymem
    /\ codecs' = r.db.codecs
    /\ obs' = [obs EXCEPT !.op = "rekey", !.pg = pg, !.ptr = pager[pg].codec,
                          !.rc = r.rc, !.msg = r.msg]
    /\ res' = [NoRes EXCEPT !.op = "rekey", !.id = pager[pg].codec]
    /\ UNCHANGED <<appkey, disk, page, hist, conn>>
    /\ UNCHANGED api

DoRekey(pg) ==
    /\ Running
    /\ \E key \in RekeyKeys : RekeyStep(pg, sqlite3_rekey_v2(Db, pg, key))

\* the pager reads and writes its pages through the exec callback of its codec
PagerExec(pg, R) ==
    /\ pager[pg].codec # 0
    /\ DoExec(pager[pg].codec, R)

----------------------------------------------------------------------------
(* The init and free callbacks of connections that run in parallel.  No lock   *)
(* guards codecs: a write to the map that overlaps another access is a data    *)
(* race, after which the map holds the write applied to its current contents   *)
(* or to the contents read when the access began, or the runtime stops the     *)
(* process ("concurrent map writes").                                          *)

Accessing(k) == conn[k].pc # "idle"

\* connection k begins an access to codecs: it overlaps every access under way
BeginAccess(k, pc) ==
    conn' = [j \in Conns |->
                IF j = k
                THEN [pc |-> pc, id |-> k, snap |-> codecs,
                      raced |-> \E i \in Conns \ {k} : Accessing(i)]
                ELSE [conn[j] EXCEPT !.raced = @ \/ Accessing(j)]]

\* the outcomes of a write to codecs that leaves now when nothing overlaps it and
\* leaves late when it works on the contents read at its beginning
WriteOutcomes(k, now, late) ==
    IF conn[k].raced
    THEN {[codecs |-> now, fatal |-> FALSE], [codecs |-> late, fatal |-> FALSE],
          [codecs |-> codecs, fatal |-> TRUE]}
    ELSE {[codecs |-> now, fatal |-> FALSE]}

\* go_codec_init on connection k, up to codecs[cs] = struct{}{}: the codec is
\* constructed; the wrapper of connection k is k
ParInitBegin(k) ==
    /\ ~obs.fatal /\ ~Accessing(k) /\ ~Live(k) /\ k \notin obs.published
    /\ \E order \in Orders(appkey.opts) :
        LET g == go_codec_init(codecs, k, TRUE, appkey, order)
        IN /\ inst' = [inst EXCEPT ![k] = g.c]
           /\ keymem' = [keymem EXCEPT ![k] = g.mem]
    /\ BeginAccess(k, "insert")
    /\ UNCHANGED <<appkey, disk, page, res, hist, codecs, pager, obs>>
    /\ UNCHANGED api

\* go_codec_init on connection k, from codecs[cs] = struct{}{} to its return
ParInitEnd(k) ==
    /\ ~obs.fatal /\ conn[k].pc = "insert"
    /\ \E w \in WriteOutcomes(k, codecs \cup {k}, conn[k].snap \cup {k}) :
        /\ codecs' = w.codecs
        /\ obs' = [obs EXCEPT !.published = @ \cup {k}, !.op = "init", !.ptr = k,
                              !.fatal = w.fatal]
    /\ conn' = [conn EXCEPT ![k] = NoConn]
    /\ UNCHANGED <<inst, appkey, keymem, disk, page, res, hist, pager>>
    /\ UNCHANGED api

\* go_codec_free on connection k, up to delete(codecs, cs)
ParFreeBegin(k) ==
    /\ ~obs.fatal /\ ~Accessing(k) /\ k \in obs.published
    /\ BeginAccess(k, "delete")
    /\ UNCHANGED <<inst, appkey, keymem, disk, page, res, hist, codecs, pager, obs>>
    /\ UNCHANGED api

\* go_codec_free on connection k, from delete(codecs, cs) to its return
ParFreeEnd(k) ==
    /\ ~obs.fatal /\ conn[k].pc = "delete"
    /\ \E w \in WriteOutcomes(k, codecs \ {k}, conn[k].snap \ {k}) :
        /\ codecs' = w.codecs
        /\ obs' = [obs EXCEPT !.published = @ \ {k}, !.op = "free", !.ptr = k,
                              !.freed = [@ EXCEPT ![k] = IF @ < 2 THEN @ + 1 ELSE @],
                              !.fatal = w.fatal]
        /\ inst' = [inst EXCEPT ![k] = IF w.fatal THEN @ ELSE Free(@)]
        /\ keymem' = [keymem EXCEPT ![k] = IF w.fatal THEN @ ELSE FreeKey(inst[k], @)]
    /\ conn' = [conn EXCEPT ![k] = NoConn]
    /\ UNCHANGED <<appkey, disk, page, res, hist, pager>>
    /\ UNCHANGED api

----------------------------------------------------------------------------
(* go1/sqlite3/sqlite3.go: Conn.Exec, the busy handler, and the calls an        *)
(* application makes on a Conn and on a Stmt                                     *)

\* the most arguments of a call
MaxArgs == 3
\* time.Millisecond, in the unit of the model's durations
Millisecond == 2
\* the durations given to BusyTimeout: negative, zero, under and over 1 ms
Durations == {0 - 2, 0, 1, 2}

\* what sqlite3_step returns for each statement of sql: SQLITE_ROW from
\* statements with columns only
OutLists(sql) ==
    {os \in [1 .. Len(sql) -> {"row", "done", "error"}] :
        \A i \in 1 .. Len(sql) :
            os[i] \in {"done"} \cup (IF sql[i].kind = "stmt" THEN {"error"} ELSE {})
                      \cup (IF sql[i].kind = "stmt" /\ sql[i].nCols > 0 THEN {"row"} ELSE {})}

\* what Conn.Exec leaves: the error, its message, the arguments not consumed,
\* the statements executed with the arguments each was given
ExecRet(err, msg, args, log) == [err |-> err, msg |-> msg, args |-> args, log |-> log]

\* sqlite3_exec runs the statements of sql in order up to the first that fails;
\* k is the position of the first statement of sql in the text of the call
RECURSIVE sqlite3_exec(_, _, _)
sqlite3_exec(sql, os, log) ==
    IF sql = <<>> THEN ExecRet("nil", "", <<>>, log)
    ELSE IF sql[1].kind = "bad" THEN ExecRet("lib", "", <<>>, log)
    ELSE IF sql[1].kind = "blank" THEN sqlite3_exec(Tail(sql), os, log)
    ELSE IF os[Len(os) - Len(sql) + 1] = "error"
    THEN ExecRet("lib", "", <<>>,
                 Append(log, [i |-> Len(os) - Len(sql) + 1, given |-> <<>>]))
    ELSE sqlite3_exec(Tail(sql), os,
                      Append(log, [i |-> Len(os) - Len(sql) + 1, given |-> <<>>]))

\* what the closure execNext of Conn.Exec leaves: the rest of the text and of
\* the arguments, the error, whether a statement ran and with which arguments
NextRet(sql, args, err, msg, ran, given) ==
    [sql |-> sql, args |-> args, err |-> err, msg |-> msg, ran |-> ran, given |-> given]

\* an execNext that gives every statement the arguments from the first on
ExecNextArgs_Rewind(n, myArgs, args, o) ==
    NextRet(n.s.Tail, args,
            stmt_exec(n.s, n.vm, myArgs, o).err, stmt_exec(n.s, n.vm, myArgs, o).msg,
            TRUE, myArgs)

\* execNext, with the statement n and its arguments myArgs: args is cut, the
\* statement is executed; the deferred Close finalizes it
ExecNextArgs(n, myArgs, args, o) ==
    NextRet(n.s.Tail,
            IF n.s.nVars > 0 THEN SubSeq(args, Len(myArgs) + 1, Len(args)) ELSE args,
            stmt_exec(n.s, n.vm, myArgs, o).err, stmt_exec(n.s, n.vm, myArgs, o).msg,
            TRUE, myArgs)

\* execNext, with the outcome n of newStmt
ExecNextStmt(n, sql, args, o) ==
    IF n.err # "nil" THEN NextRet(sql, args, n.err, "", FALSE, <<>>)
    ELSE IF n.s.stmt = 0 THEN NextRet(n.s.Tail, args, "nil", "", FALSE, <<>>)
    ELSE ExecNextArgs(n,
                      IF n.s.nVars = 0 THEN <<>>
                      ELSE IF n.s.nVars < Len(args) THEN SubSeq(args, 1, n.s.nVars)
                      ELSE args,
                      args, o)

execNext(c, sql, args, o) == ExecNextStmt(newStmt(c, sql), sql, args, o)

\* the loop of Conn.Exec: for sql != "" && err == nil { err = execNext() }
RECURSIVE ExecLoop(_, _, _, _, _)
ExecLoop(c, sql, args, os, log) ==
    IF sql = <<>> THEN ExecRet("nil", "", args, log)
    ELSE LET x == execNext(c, sql, args, os[Len(os) - Len(sql) + 1])
             l == IF x.ran
                  THEN Append(log, [i |-> Len(os) - Len(sql) + 1, given |-> x.given])
                  ELSE log
         IN IF x.err # "nil" THEN ExecRet(x.err, x.msg, x.args, l)
            ELSE ExecLoop(c, x.sql, x.args, os, l)

\* Conn.Exec, after the loop returned l
ExecDone(l) ==
    IF l.err = "nil" /\ Len(l.args) # 0
    THEN [l EXCEPT !.err = "MISUSE", !.msg = "argument(s) left unconsumed"]
    ELSE l

\* Conn.Exec with unnamed arguments: the fast path without arguments, the slow
\* path with
ConnExec(c, sql, args, os) ==
    IF c.db = 0 THEN ExecRet("ErrBadConn", "", args, <<>>)
    ELSE IF Len(args) = 0 THEN sqlite3_exec(sql, os, <<>>)
    ELSE ExecDone(ExecLoop(1, sql, args, os, <<>>))

\* the Go callback that the db calls when a table is locked
Registered(c) == IF c.handler = "go" THEN c.busy ELSE "nil"

\* sqlite3_busy_timeout: the built-in handler for ms > 0, no handler otherwise
sqlite3_busy_timeout(c, ms) ==
    [c EXCEPT !.handler = IF ms > 0 THEN "timeout" ELSE "none"]

\* C.int(d/time.Millisecond): the quotient, truncated toward zero
Millis(d) == IF d >= 0 THEN d \div Millisecond ELSE 0 - ((0 - d) \div Millisecond)

\* BusyTimeout enables the built-in busy handler
BusyTimeout(c, d) ==
    IF c.db # 0
    THEN [c |-> sqlite3_busy_timeout([c EXCEPT !.busy = "nil"], Millis(d)), prev |-> c.busy]
    ELSE [c |-> c, prev |-> "nil"]

\* BusyFunc registers the function f: set_busy_handler installs go_busy_handler
\* when f is not nil and clears the handler of the db when it is
BusyFunc(c, f) ==
    IF c.db # 0
    THEN [c |-> [c EXCEPT !.busy = f, !.handler = IF f # "nil" THEN "go" ELSE "none"],
          prev |-> c.busy]
    ELSE [c |-> c, prev |-> "nil"]

\* Conn.Exec("PRAGMA busy_timeout = ms"): the db sets its built-in handler; the
\* Conn is not told
Pragma(c, ms) ==
    IF c.db = 0 THEN [c |-> c, err |-> "ErrBadConn"]
    ELSE [c |-> sqlite3_busy_timeout(c, ms), err |-> "nil"]

\* Conn.Close: *c = Conn{} ; sqlite3_close, which returns SQLITE_BUSY while a
\* statement of the connection is not finalized
ConnClose(c, v) ==
    IF c.db # 0
    THEN [c |-> NoDbConn, err |-> IF v.state \in {"init", "row"} THEN "lib" ELSE "nil"]
    ELSE [c |-> c, err |-> "nil"]

\* a call on the Conn: the statement and the codec are not touched
ConnCall(c, rec) ==
    /\ dbconn' = c
    /\ call' = rec
    /\ UNCHANGED <<stmt, vm>>
    /\ UNCHANGED cvars
    /\ UNCHANGED shim

\* Open creates a new connection, when sqlite3_open_v2 returns rc = SQLITE_OK
DoOpen ==
    /\ dbconn.db = 0
    /\ \E rc \in Status :
        ConnCall(IF rc = "ok" THEN [NoDbConn EXCEPT !.db = 1] ELSE dbconn,
                 [NoCall EXCEPT !.op = "Open", !.err = IF rc = "ok" THEN "nil" ELSE "lib",
                                !.misused = call.misused])

DoConnClose ==
    ConnCall(ConnClose(dbconn, vm).c,
             [NoCall EXCEPT !.op = "ConnClose", !.err = ConnClose(dbconn, vm).err,
                            !.reg0 = Registered(dbconn), !.misused = call.misused])

\* the state after x == ConnExec(dbconn, sql, args, os)
ConnExecStep(sql, args, os, x) ==
    ConnCall(dbconn,
             [NoCall EXCEPT !.op = "ConnExec", !.err = x.err, !.msg = x.msg, !.sql = sql,
                            !.args = args, !.log = x.log, !.left = Len(x.args),
                            !.os = os, !.valid0 = (dbconn.db # 0), !.misused = call.misused])

DoConnExec ==
    \E sql \in ExecScripts, k \in 0 .. MaxArgs :
    \E args \in ArgLists(k), os \in OutLists(sql) :
        ConnExecStep(sql, args, os, ConnExec(dbconn, sql, args, os))

\* Conn.Exec of a script of one statement
DoConnExecOne ==
    \E sql \in {s \in ExecScripts : Len(s) = 1}, k \in {0, MaxVars} :
    \E args \in ArgLists(k), os \in OutLists(sql) :
        ConnExecStep(sql, args, os, ConnExec(dbconn, sql, args, os))

\* the state after b == BusyTimeout(dbconn, d) or b == BusyFunc(dbconn, f)
BusyStep(op, d, f, b) ==
    ConnCall(b.c,
             [NoCall EXCEPT !.op = op, !.prev = b.prev, !.reg0 = Registered(dbconn),
                            !.d = d, !.f = f, !.valid0 = (dbconn.db # 0),
                            !.misused = call.misused])

DoBusyTimeout == \E d \in Durations : BusyStep("BusyTimeout", d, "nil", BusyTimeout(dbconn, d))

DoBusyFunc == \E f \in BusyFuncs : BusyStep("BusyFunc", 0, f, BusyFunc(dbconn, f))

DoPragma ==
    \E ms \in {0, 1} :
        ConnCall(Pragma(dbconn, ms).c,
                 [NoCall EXCEPT !.op = "Pragma", !.err = Pragma(dbconn, ms).err, !.d = ms,
                                !.reg0 = Registered(dbconn), !.valid0 = (dbconn.db # 0),
                                !.misused = call.misused])

\* c.exec: sqlite3_exec of one statement without callback, which returns rc
exec(c, rc) == IF rc # "ok" THEN "lib" ELSE "nil"

\* Begin, Commit and Rollback run BEGIN, COMMIT and ROLLBACK through c.exec
Begin(c, rc) == IF c.db = 0 THEN "ErrBadConn" ELSE exec(c, rc)
Commit(c, rc) == IF c.db = 0 THEN "ErrBadConn" ELSE exec(c, rc)
Rollback(c, rc) == IF c.db = 0 THEN "ErrBadConn" ELSE exec(c, rc)

\* the destinations Backup is given: no Conn, the source itself, another Conn
\* that is closed or open
BackupDsts == {"nil", "self", "closed", "open"}

\* Backup: newBackup, which returns rc, is reached with two open connections
Backup(c, dst, rc) ==
    IF c.db = 0 \/ dst \in {"self", "nil", "closed"} THEN "ErrBadConn"
    ELSE IF rc # "ok" THEN "lib" ELSE "nil"

\* BlobIO: newBlobIO, which returns rc, is reached with an open connection
BlobIO(c, rc) == IF c.db = 0 THEN "ErrBadConn" ELSE IF rc # "ok" THEN "lib" ELSE "nil"

\* Status: cur and peak are the counters sqlite3_db_status gives with rc
ConnStatus(c, rc, cur, peak) ==
    IF c.db = 0 THEN [cur |-> 0, peak |-> 0, err |-> "ErrBadConn"]
    ELSE IF rc # "ok" THEN [cur |-> 0, peak |-> 0, err |-> "misuse"]
    ELSE [cur |-> cur, peak |-> peak, err |-> "nil"]

\* the accessors: v is what the library returns for the open db
AutoCommit(c, v) == IF c.db = 0 THEN FALSE ELSE v
LastInsertId(c, v) == IF c.db = 0 THEN 0 ELSE v
RowsAffected(c, v) == IF c.db = 0 THEN 0 ELSE v
\* Path: v is "" when sqlite3_db_filename returns no name
Path(c, v) == IF c.db # 0 THEN v ELSE ""
Limit(c, v) == IF c.db # 0 THEN v ELSE 0

\* a CommitFunc that keeps the callback of a closed connection
CommitFunc_Keep(c, f) ==
    [c |-> [c EXCEPT !.commit = f, !.hooks = IF c.db = 0 THEN @
                                             ELSE IF f # "nil" THEN @ \cup {"commit"}
                                             ELSE @ \ {"commit"}],
     prev |-> c.commit]

\* CommitFunc, RollbackFunc, UpdateFunc: the callback is kept in the Conn and
\* the hook of the db is set when f is not nil and cleared when it is
CommitFunc(c, f) ==
    IF c.db # 0
    THEN [c |-> [c EXCEPT !.commit = f,
                          !.hooks = IF f # "nil" THEN @ \cup {"commit"} ELSE @ \ {"commit"}],
          prev |-> c.commit]
    ELSE [c |-> c, prev |-> "nil"]

RollbackFunc(c, f) ==
    IF c.db # 0
    THEN [c |-> [c EXCEPT !.rollback = f,
                          !.hooks = IF f # "nil" THEN @ \cup {"rollback"}
                                    ELSE @ \ {"rollback"}],
          prev |-> c.rollback]
    ELSE [c |-> c, prev |-> "nil"]

UpdateFunc(c, f) ==
    IF c.db # 0
    THEN [c |-> [c EXCEPT !.update = f,
                          !.hooks = IF f # "nil" THEN @ \cup {"update"} ELSE @ \ {"update"}],
          prev |-> c.update]
    ELSE [c |-> c, prev |-> "nil"]

\* Conn.Query: newStmt, then Stmt.Query with the first step returning o; the
\* statement is closed, sqlite3_finalize returning rc, when the query fails
ConnQuery(c, sql, args, o, rc) ==
    IF c.db = 0 THEN Out(NilStmt, NoVm, "ErrBadConn", "", 0)
    ELSE IF newStmt(1, sql).err # "nil" THEN Out(NilStmt, NoVm, newStmt(1, sql).err, "", 0)
    ELSE LET q == StmtQuery(newStmt(1, sql).s, newStmt(1, sql).vm, args, o)
         IN IF q.err = "nil" THEN q
            ELSE [StmtClose(q.s, q.vm, rc) EXCEPT !.s = NilStmt, !.err = q.err,
                                                  !.msg = q.msg, !.steps = q.steps]

\* the callbacks an application sets as commit, rollback and update hooks
HookFuncs == {"nil", "f"}

DoConnTx ==
    \E rc \in Status :
        \/ ConnCall(dbconn, [NoCall EXCEPT !.op = "Begin", !.err = Begin(dbconn, rc),
                                           !.misused = call.misused])
        \/ ConnCall(dbconn, [NoCall EXCEPT !.op = "Commit", !.err = Commit(dbconn, rc),
                                           !.misused = call.misused])
        \/ ConnCall(dbconn, [NoCall EXCEPT !.op = "Rollback", !.err = Rollback(dbconn, rc),
                                           !.misused = call.misused])

DoBackup ==
    \E dst \in BackupDsts, rc \in Status :
        ConnCall(dbconn, [NoCall EXCEPT !.op = "Backup", !.err = Backup(dbconn, dst, rc),
                                       !.misused = call.misused])

DoBlobIO ==
    \E rc \in Status :
        ConnCall(dbconn, [NoCall EXCEPT !.op = "BlobIO", !.err = BlobIO(dbconn, rc),
                                       !.misused = call.misused])

DoStatus ==
    \E rc \in Status, cur \in {0, 1}, peak \in {1} :
        ConnCall(dbconn,
                 [NoCall EXCEPT !.op = "Status", !.err = ConnStatus(dbconn, rc, cur, peak).err,
                                !.val = <<ConnStatus(dbconn, rc, cur, peak).cur,
                                          ConnStatus(dbconn, rc, cur, peak).peak>>,
                                !.misused = call.misused])

\* the accessors of Conn, with the values the library holds for an open db
DoConnGet ==
    \/ \E v \in BOOLEAN :
        ConnCall(dbconn, [NoCall EXCEPT !.op = "AutoCommit", !.val = <<AutoCommit(dbconn, v)>>,
                                       !.misused = call.misused])
    \/ \E v \in {0, 1} :
        \/ ConnCall(dbconn, [NoCall EXCEPT !.op = "LastInsertId",
                                           !.val = <<LastInsertId(dbconn, v)>>,
                                           !.misused = call.misused])
        \/ ConnCall(dbconn, [NoCall EXCEPT !.op = "RowsAffected",
                                           !.val = <<RowsAffected(dbconn, v)>>,
                                           !.misused = call.misused])
        \/ ConnCall(dbconn, [NoCall EXCEPT !.op = "Limit", !.val = <<Limit(dbconn, v)>>,
                                           !.misused = call.misused])
    \/ \E v \in {"", "a.db"} :
        ConnCall(dbconn, [NoCall EXCEPT !.op = "Path", !.val = <<Path(dbconn, v)>>,
                                       !.misused = call.misused])

\* the state after b == CommitFunc(dbconn, f), RollbackFunc or UpdateFunc
HookStep(op, f, b) ==
    ConnCall(b.c, [NoCall EXCEPT !.op = op, !.prev = b.prev, !.f = f,
                                 !.valid0 = (dbconn.db # 0), !.misused = call.misused])

DoHookFunc ==
    \E f \in HookFuncs :
        \/ HookStep("CommitFunc", f, CommitFunc(dbconn, f))
        \/ HookStep("RollbackFunc", f, RollbackFunc(dbconn, f))
        \/ HookStep("UpdateFunc", f, UpdateFunc(dbconn, f))

\* Conn.Query: the application holds the statement it returns, or none
DoConnQuery ==
    \E sql \in {<<>>} \cup {<<q>> : q \in SqlStmts}, k \in {0, MaxVars}, rc \in Status :
    \E args \in ArgLists(k), o \in StepOut(newStmt(1, sql).vm) :
        /\ stmt' = ConnQuery(dbconn, sql, args, o, rc).s
        /\ vm' = ConnQuery(dbconn, sql, args, o, rc).vm
        /\ call' = [NoCall EXCEPT !.op = "ConnQuery", !.sql = sql, !.args = args, !.o = o,
                                  !.err = ConnQuery(dbconn, sql, args, o, rc).err,
                                  !.msg = ConnQuery(dbconn, sql, args, o, rc).msg,
                                  !.steps = ConnQuery(dbconn, sql, args, o, rc).steps]
        /\ UNCHANGED dbconn
        /\ UNCHANGED cvars
        /\ UNCHANGED shim

\* a call on the Stmt that left r: the Conn and the codec are not touched
StmtCall(r, rec) ==
    /\ stmt' = r.s
    /\ vm' = r.vm
    /\ call' = [rec EXCEPT !.err = r.err, !.msg = r.msg, !.steps = r.steps,
                           !.valid0 = Valid(stmt), !.busy0 = Busy(stmt),
                           !.nVars0 = NumParams(stmt)]
    /\ UNCHANGED dbconn
    /\ UNCHANGED cvars
    /\ UNCHANGED shim

\* Conn.Prepare: the application holds the new statement, or none
DoPrepare ==
    \E sql \in PrepScripts :
        /\ stmt' = IF dbconn.db = 0 THEN NilStmt ELSE newStmt(1, sql).s
        /\ vm' = IF dbconn.db = 0 THEN NoVm ELSE newStmt(1, sql).vm
        /\ call' = [NoCall EXCEPT !.op = "Prepare", !.sql = sql,
                                  !.err = IF dbconn.db = 0 THEN "ErrBadConn"
                                          ELSE newStmt(1, sql).err]
        /\ UNCHANGED dbconn
        /\ UNCHANGED cvars
        /\ UNCHANGED shim

\* the methods of Stmt are called on the statement the application holds
\* (stmt.conn # 0); the first step of Exec and Query is made after the reset

DoStmtExec ==
    /\ stmt.conn # 0
    /\ \E k \in 0 .. MaxArgs : \E args \in ArgLists(k), o \in StepOut(StmtReset(stmt, vm).vm) :
        StmtCall(StmtExec(stmt, vm, args, o),
                 [NoCall EXCEPT !.op = "Exec", !.args = args, !.o = o,
                                !.misused = call.misused
                                            \/ (Valid(stmt) /\ k # NumParams(stmt))])

DoStmtQuery ==
    /\ stmt.conn # 0
    /\ \E k \in 0 .. MaxArgs : \E args \in ArgLists(k), o \in StepOut(StmtReset(stmt, vm).vm) :
        StmtCall(StmtQuery(stmt, vm, args, o),
                 [NoCall EXCEPT !.op = "Query", !.args = args, !.o = o,
                                !.misused = call.misused
                                            \/ (Valid(stmt) /\ k # NumParams(stmt))])

DoStmtNext ==
    /\ stmt.conn # 0
    /\ \E o \in StepOut(vm) :
        StmtCall(StmtNext(stmt, vm, o),
                 [NoCall EXCEPT !.op = "Next", !.o = o, !.misused = call.misused])

DoStmtScan ==
    /\ stmt.conn # 0
    /\ \E n \in 0 .. MaxCols + 1 :
        StmtCall(StmtScan(stmt, vm, n),
                 [NoCall EXCEPT !.op = "Scan", !.left = n, !.misused = call.misused])

DoStmtReset ==
    /\ stmt.conn # 0
    /\ StmtCall(StmtReset(stmt, vm),
                [NoCall EXCEPT !.op = "Reset", !.misused = call.misused])

\* DataTypes, and String, Params, Columns and DeclTypes
DoStmtInfo ==
    /\ stmt.conn # 0
    /\ StmtCall(Out(StmtInfo(DataTypes(stmt).s, vm), vm, "nil", "", 0),
                [NoCall EXCEPT !.op = "Info", !.ret = DataTypes(stmt).ret,
                               !.misused = call.misused])

DoStmtClose ==
    /\ stmt.conn # 0
    /\ \E rc \in Status :
        StmtCall(StmtClose(stmt, vm, rc),
                 [NoCall EXCEPT !.op = "Close", !.misused = call.misused])

----------------------------------------------------------------------------
(* Specifications *)

AnyWord == 0 .. PageSize
RndGood == 1 .. MaxRnd

\* one codec instance at a time, called directly: every input, every failure
Next ==
    \E id \in {1} :
        \/ New(id)
        \/ DoResize(id)
        \/ DoEncode(id, RndOut)
        \/ DoDecode(id, AnyWord)
        \/ DoKey(id)
        \/ DoFree(id)

Spec == Init /\ [][Next]_vars

\* two instances built from the same key descriptor: 1 writes the database, 2
\* reads it
NextSib ==
    \/ \E id \in CodecIds : New(id) \/ DoResize(id)
    \/ DoEncode(1, RndGood)
    \/ DoDecode(2, {0})

SpecSib == Init /\ [][NextSib]_vars

\* two codec instances built from key descriptors with different secrets: each
\* writes its own database and reads the pages the other wrote
NextKey ==
    \/ New(1)
    \/ NewOther(2)
    \/ \E id \in CodecIds : DoResize(id) \/ DoEncodeAt(id, {1}) \/ DoDecodeAt(id, {1, 2})

SpecKey == Init /\ [][NextKey]_vars

\* one codec instance driven by the pager through the exec callback
NextExec ==
    \E id \in {1} :
        \/ New(id)
        \/ DoResize(id)
        \/ DoExec(id, RndGood)
        \/ DoExec2(id, RndGood)

SpecExec == Init /\ [][NextExec]_vars

\* connections attach and close their databases one callback at a time
NextShim ==
    \E pg \in Pagers :
        \/ DoAttach(pg)
        \/ PagerClose(pg)

SpecShim == Init /\ [][NextShim]_vars

\* two connections run their init and free callbacks in parallel
NextPar ==
    \E k \in Conns :
        \/ ParInitBegin(k)
        \/ ParInitEnd(k)
        \/ ParFreeBegin(k)
        \/ ParFreeEnd(k)

SpecPar == Init /\ [][NextPar]_vars

\* a connection attaches a codec to its database, the pager writes and reads
\* pages through it, and the connection asks for a new key
NextRekey ==
    \E pg \in {2} :
        \/ DoAttach(pg)
        \/ PagerExec(pg, RndGood)
        \/ DoRekey(pg)

SpecRekey == Init /\ [][NextRekey]_vars

\* the option tokens a key descriptor is built from in SpecCfg: the four the
\* codec knows and one it does not
OptTokens == {"192", "256", "ofb", "sha256", "foo"}

InitCfg ==
    /\ inst = [id \in CodecIds |-> ZeroCodec]
    /\ keymem = [id \in CodecIds |-> WipedKey]
    /\ appkey \in {KeyDesc(opts) : opts \in SUBSET OptTokens}
    /\ disk = NoDisk
    /\ page = <<>>
    /\ res = NoRes
    /\ hist = [id \in CodecIds |-> NoHist]
    /\ codecs = {}
    /\ pager = [pg \in Pagers |-> NoPager(pg)]
    /\ conn = [k \in Conns |-> NoConn]
    /\ obs = NoObs
    /\ dbconn = NoDbConn
    /\ stmt = NilStmt
    /\ vm = NoVm
    /\ call = NoCall

\* the constructor on every option set, in every order of its options; two
\* instances are built from the same key descriptor
NextCfg ==
    \E id \in CodecIds :
        \/ New(id)
        \/ DoResize(id)
        \/ DoKey(id)
        \/ DoFree(id)

SpecCfg == InitCfg /\ [][NextCfg]_vars

\* an application prepares a statement, runs it, reads its rows and closes it
NextStmt ==
    \/ DoOpen
    \/ DoPrepare
    \/ DoStmtExec
    \/ DoStmtQuery
    \/ DoStmtNext
    \/ DoStmtScan
    \/ DoStmtReset
    \/ DoStmtInfo
    \/ DoStmtClose

SpecStmt == Init /\ [][NextStmt]_vars

\* an application runs scripts on a connection
NextConn ==
    \/ DoOpen
    \/ DoConnExec
    \/ DoConnClose

SpecConn == Init /\ [][NextConn]_vars

\* an application sets the busy handler of a connection
NextBusy ==
    \/ DoOpen
    \/ DoBusyTimeout
    \/ DoBusyFunc
    \/ DoPragma
    \/ DoConnClose

SpecBusy == Init /\ [][NextBusy]_vars

\* an application opens a connection, prepares statements, sets its callbacks,
\* closes it and goes on calling its methods; Exec and Query are called on the
\* closed connection only
NextClosed ==
    \/ DoOpen
    \/ DoConnClose
    \/ DoPrepare
    \/ dbconn.db = 0 /\ DoConnExecOne
    \/ dbconn.db = 0 /\ DoConnQuery
    \/ DoConnTx
    \/ DoBackup
    \/ DoBlobIO
    \/ DoStatus
    \/ DoConnGet
    \/ DoBusyTimeout
    \/ DoBusyFunc
    \/ DoHookFunc

SpecClosed == Init /\ [][NextClosed]_vars

\* two instances built from the same key descriptor: 1 writes pages 1 to
\* MaxPage + 1, both read them at every page number
NextPn ==
    \/ \E id \in CodecIds : New(id) \/ DoResize(id) \/ DoDecodeAt(id, 1 .. MaxPage + 1)
    \/ DoEncodeAt(1, 1 .. MaxPage + 1)

SpecPn == Init /\ [][NextPn]_vars

\* one instance, with a CSPRNG that returns more than one value
NextIv ==
    \E id \in {1} :
        \/ New(id)
        \/ DoResize(id)
        \/ DoEncode(id, 1 .. MaxRnd + 1)
        \/ DoDecode(id, {0})

SpecIv == Init /\ [][NextIv]_vars

----------------------------------------------------------------------------
(* Properties *)

\* the last call was op on a codec that had been resized, and that was
\* initialized or was given page 1
Ran(op) ==
    /\ res.op = op
    /\ hist[res.id].resized
    /\ res.ini0 \/ res.n = 1

\* the last call decoded, at its own page number, the page on disk unchanged,
\* on the instance that encoded it
DecodedOwn ==
    /\ Ran("decode") /\ res.src = "disk"
    /\ res.flip = 0 /\ res.n = disk.n
    /\ disk.by = res.id /\ hist[res.id].wrote

PrngOk == res.rIv # RndFail /\ (res.ini0 \/ res.rMk # RndFail)

\* C1 as stated: Encode succeeds and Decode of a copy of the returned page gives
\* back the input page of Encode in all its P bytes.
C1_RoundTripAllBytes ==
    /\ Ran("encode") /\ PrngOk => res.err = "ok"
    /\ DecodedOwn => res.err = "ok" /\ page = disk.p0

\* C1 amended: Encode succeeds when the CSPRNG does; Decode of a copy of the
\* returned page succeeds and gives back the bytes [0, P-R) of the input page
\* and, in the master-key slot, what Encode left there (the input's bytes, or
\* the new master key on the Encode that initialized the codec); the IV and
\* tag slots keep the IV and the tag of the encoded page.
C1_RoundTrip ==
    /\ Ran("encode") /\ PrngOk => res.err = "ok"
    /\ DecodedOwn =>
        LET c == inst[res.id]
            usable == PageSize - Reserve(c)
        IN /\ res.err = "ok"
           /\ Slice(page, 0, usable) = Slice(disk.p0, 0, usable)
           /\ pText(c, page) = pText(c, disk.p1)
           /\ disk.p1 = (IF disk.fresh
                         THEN Splice(disk.p0, pKeyOff(c, disk.p0), pKey(c, disk.p1))
                         ELSE disk.p0)
           /\ Slice(page, pIVOff(c, page), PageSize) = Slice(disk.q, pIVOff(c, page), PageSize)

C1_Witness ==
    /\ DecodedOwn /\ res.err = "ok" /\ res.n > 1
    /\ page # disk.p0

\* C2: a page returned by Encode with one word changed, in the authenticated
\* region or in the tag, is rejected with CodecError by Decode at its page number.
C2_TagSensitivity ==
    Ran("decode") /\ res.flip # 0 => res.err = "codec"

C2_Witness ==
    /\ Ran("decode") /\ res.flip = pIVOff(inst[res.id], page) + 1
    /\ res.err = "codec" /\ res.n = 1

\* C3: a Decode that returns an error leaves every byte of the page as it was.
C3_FailedDecodeKeepsPage ==
    res.op = "decode" /\ res.err # "ok" => page = res.p0

C3_Witness ==
    Ran("decode") /\ res.err = "codec" /\ res.flip = 0 /\ page = disk.q

\* C4: bytes 16..23 of page 1 are the same in the input and in the output of
\* Encode, and are the same before and after a successful Decode.
C4_HeaderPreserved ==
    /\ res.op = "encode" /\ res.err = "ok" /\ res.n = 1 =>
        Slice(inst[res.id].buf, ClrLo, ClrHi) = Slice(res.p0, ClrLo, ClrHi)
    /\ res.op = "decode" /\ res.err = "ok" /\ res.n = 1 =>
        Slice(page, ClrLo, ClrHi) = Slice(res.p0, ClrLo, ClrHi)

C4_Witness ==
    /\ res.op = "decode" /\ res.err = "ok" /\ res.n = 1
    /\ page[1] # res.p0[1]

\* C5: Encode leaves every byte of the page it is given as it was.
C5_EncodeKeepsInput ==
    res.op = "encode" => page = res.p0


C5_Witness ==
    res.op = "encode" /\ res.drew /\ res.err = "ok" /\ page # res.p0

----------------------------------------------------------------------------
(* Sibling codecs, under SpecSib: 1 encodes, 2 decodes *)

\* the bytes of a page that the pager uses: [0, P - R)
Usable(c, p) == Slice(p, 0, Len(p) - Reserve(c))

\* the uninitialized codec 2 decoded the page 1 that codec 1 encoded
SibFirst ==
    /\ res.op = "decode" /\ res.id = 2 /\ ~res.ini0 /\ hist[2].resized
    /\ res.n = 1 /\ disk.n = 1 /\ disk.by = 1

\* codec 2, initialized by decoding page 1, decoded a page n > 1 that codec 1 encoded
SibLater ==
    /\ res.op = "decode" /\ res.id = 2 /\ res.ini0 /\ hist[2].iniBy = "decode"
    /\ res.n > 1 /\ disk.n = res.n /\ disk.by = 1

SibRecovered == res.err = "ok" /\ Usable(inst[2], page) = Usable(inst[2], disk.p0)

SameKeys == inst[2].block = inst[1].block /\ inst[2].hmac = inst[1].hmac

----------------------------------------------------------------------------
(* The master key and the per-database cipher, under Spec *)

\* the block cipher and the HMAC that init derives from master key mk and header hdr
KeysOf(c, mk, hdr) ==
    rekey(c, Slice(hkdf(mk, <<>>, 2 * c.kLen, c.hash, hdr), 0, c.kLen),
             Slice(hkdf(mk, <<>>, 2 * c.kLen, c.hash, hdr), c.kLen, 2 * c.kLen))

\* C7: an instance draws a master key from the CSPRNG at most once, and only in
\* the Encode of page 1 that initializes it; an instance that a Decode of page 1
\* initialized has drawn none and its cipher is the one derived from the master
\* key found in that page.
C7_MasterKeyOnce ==
    /\ \A id \in CodecIds : hist[id].mkGen <= 1
    /\ res.drew =>
        /\ res.op = "encode" /\ res.n = 1 /\ ~res.ini0 /\ res.err = "ok"
        /\ hist[res.id].iniBy = "encode" /\ inst[res.id].block # Nil
    /\ \A id \in CodecIds :
        hist[id].iniBy = "decode" /\ inst[id].block # Nil =>
            /\ hist[id].mkGen = 0
            /\ inst[id].block = KeysOf(inst[id], hist[id].mk, hist[id].hdr).block
            /\ inst[id].hmac = KeysOf(inst[id], hist[id].mk, hist[id].hdr).hmac

C7_Witness ==
    /\ res.op = "encode" /\ res.n = 1 /\ res.err = "ok" /\ ~res.drew
    /\ hist[res.id].iniBy = "decode" /\ hist[res.id].mkGen = 0
    /\ pKey(inst[res.id], page) # hist[res.id].mk

\* C8: once the block cipher and the HMAC of an instance are set, no Encode,
\* Decode, Resize or Key on it, successful or failed, changes them; Free clears
\* them.
C8_CipherSetOnce ==
    [][\A id \in CodecIds :
        /\ inst[id].block # Nil /\ res'.op \in {"encode", "decode", "resize", "key"}
             => inst'[id].block = inst[id].block /\ inst'[id].hmac = inst[id].hmac
        /\ res'.op = "free" /\ res'.id = id
             => inst'[id].block = Nil /\ inst'[id].hmac = Nil]_vars

C8_Witness ==
    /\ res.op = "decode" /\ res.n = 1 /\ res.err = "ok" /\ res.ini0
    /\ hist[res.id].iniBy = "encode"
    /\ pKey(inst[res.id], page) # hist[res.id].mk
    /\ inst[res.id].block = KeysOf(inst[res.id], hist[res.id].mk, hist[res.id].hdr).block

----------------------------------------------------------------------------
(* The exec callback, under SpecExec *)

\* C10: the exec callback calls Encode and returns the codec's buffer when bit 4
\* of op is set (op = 6 or 7), and calls Decode and returns the page pointer when
\* it is clear (op = 3).
C10_ExecDirection ==
    res.via \in {"exec1", "exec2"} =>
        /\ res.bits \in {6, 7} =>
            res.op = "encode" /\ (res.err = "ok" => res.ret = "buf")
        /\ res.bits = 3 =>
            res.op = "decode" /\ (res.err = "ok" => res.ret = "page")

\* C11: the exec callback returns null whenever the Encode or Decode it called
\* failed, and a page pointer only when the call succeeded.
C11_ExecNull ==
    res.via \in {"exec1", "exec2"} => (res.ret # "null" <=> res.err = "ok")

----------------------------------------------------------------------------
(* The liveness set and attachment, under SpecShim and SpecPar *)

\* C12: after any sequence of init and free callbacks, codecs holds exactly the
\* wrappers that init returned and free was not called on.
C12_LivenessSet == codecs = obs.published

C12_Witness ==
    /\ obs.op = "free" /\ obs.ptr \notin codecs /\ Cardinality(codecs) = 1
    /\ \E id \in codecs : Live(id)

\* C13: the accesses of parallel init and free callbacks to codecs are
\* serialized: no two callbacks access it at the same time, and no insertion
\* and no removal is lost.
C13_Serialized ==
    /\ Cardinality({k \in Conns : Accessing(k)}) <= 1
    /\ ~obs.fatal
    /\ (\A k \in Conns : ~Accessing(k)) => codecs = obs.published

\* C14: when sqlite3CodecAttach obtained a codec and returns an error, free was
\* called on the codec exactly once and the pager has no codec; when it returns
\* OK with a codec, the codec is installed on the pager and was not freed.
C14_AttachCleanup ==
    obs.op = "attach" /\ obs.ptr # 0 =>
        IF obs.rc # "ok"
        THEN obs.freed[obs.ptr] = 1 /\ ~Live(obs.ptr) /\ pager[obs.pg].codec = 0
        ELSE obs.freed[obs.ptr] = 0 /\ Live(obs.ptr) /\ pager[obs.pg].codec = obs.ptr

C14_Witness ==
    /\ obs.op = "attach" /\ obs.ptr # 0 /\ obs.rc # "ok"
    /\ obs.freed[obs.ptr] = 1 /\ \E pg \in Pagers : pager[pg].codec \notin {0, obs.ptr}

\* C18: no codec is attached with a reserve of more than 255 bytes, or with one
\* that leaves a page of 512 bytes less than 480 usable bytes.
C18_ReserveLimits ==
    \A pg \in Pagers :
        pager[pg].codec # 0 =>
            /\ WordLen * Reserve(inst[pager[pg].codec]) <= 255
            /\ pager[pg].pageSize = MinPageSize =>
                pager[pg].pageSize - Reserve(inst[pager[pg].codec]) >= MinUsable

----------------------------------------------------------------------------
(* Errors of Encode and Decode, under Spec *)

\* the last call was an Encode, on a resized codec, whose read of the page IV
\* from the CSPRNG failed
IvReadFailed == res.op = "encode" /\ hist[res.id].resized /\ res.rIv = RndFail

\* the last call was an Encode of page 1, on a resized codec without a cipher,
\* whose read of the master key from the CSPRNG failed after the IV was read
MkReadFailed ==
    /\ res.op = "encode" /\ hist[res.id].resized /\ res.rIv # RndFail
    /\ ~res.ini0 /\ res.n = 1 /\ res.rMk = RndFail

\* C22: an Encode during which a CSPRNG read fails, for the page IV or for the
\* master key of a new database, returns PrngError and no buffer.
C22_PrngError ==
    IvReadFailed \/ MkReadFailed => res.err = "prng" /\ res.ret = "null"

\* the last call was op at a page other than page 1, on a resized codec without
\* a cipher
EarlyCall(op) ==
    res.op = op /\ hist[res.id].resized /\ ~res.ini0 /\ res.n > 1

\* C28: Decode(p, n) with n > 1 on a codec whose cipher is not initialized
\* returns CodecError without crashing, leaves p as it was and leaves the codec
\* without a cipher.
C28_EarlyDecode ==
    EarlyCall("decode") =>
        res.err = "codec" /\ page = res.p0 /\ inst[res.id].block = Nil

\* what the claim C29 says of the step, of an Encode at a page other than page 1
\* on a resized codec id without a cipher: CodecError and no buffer, the page
\* as it was (no master key written), the codec as it was but for its buffer,
\* and an Encode of page 1 that still initializes it
EarlyEncodeRefused(id) ==
    /\ res'.err = "codec" /\ res'.ret = "null"
    /\ page' = res'.p0 /\ disk' = disk
    /\ inst'[id].block = Nil /\ inst'[id].hmac = Nil
    /\ inst'[id] = [inst[id] EXCEPT !.buf = inst'[id].buf]
    /\ Encode(inst'[id], res'.p0, 1, 1, 1).err = "ok"
    /\ Encode(inst'[id], res'.p0, 1, 1, 1).c.block # Nil

\* C29 as stated: Encode(p, n) with n other than 1 on a codec whose cipher is
\* not initialized returns CodecError and no buffer, leaves the codec able to be
\* initialized by a later call for page 1, and writes no master key.
C29_EarlyEncode ==
    [][res'.op = "encode" /\ hist[res'.id].resized /\ ~res'.ini0 /\ res'.n # 1
         => EarlyEncodeRefused(res'.id)]_vars

\* C29 amended: the same, for an Encode whose read of the page IV from the
\* CSPRNG succeeds; when that read fails the Encode returns PrngError and no
\* buffer, and leaves the page and the codec as they were.
C29_EarlyEncodeIvRead ==
    [][res'.op = "encode" /\ hist[res'.id].resized /\ ~res'.ini0 /\ res'.n # 1
         => IF res'.rIv # RndFail THEN EarlyEncodeRefused(res'.id)
            ELSE /\ res'.err = "prng" /\ res'.ret = "null" /\ page' = res'.p0
                 /\ disk' = disk /\ inst' = inst]_vars

C29_Witness ==
    /\ EarlyCall("encode") /\ res.rIv # RndFail /\ res.err = "codec"
    /\ pIV(inst[res.id], inst[res.id].buf) = rnd(BlockSize, res.rIv)
    /\ inst[res.id].block = Nil

----------------------------------------------------------------------------
(* The keys of page 1, under Spec *)

\* the last call was a successful Encode of page n on a resized codec
Encoded(n) ==
    res.op = "encode" /\ res.err = "ok" /\ res.n = n /\ hist[res.id].resized

\* the stream and the HMAC that cipher derives for page 1 from the user's
\* secret and the IV of the encoded page q
P1Keys(c, q) == cipher(c, 1, pIV(c, q))

\* the encoded page q carries the tag made with the HMAC h over its page number
\* n and its authenticated bytes
TaggedWith(c, q, n, h) == pTag(c, q) = Digest(h, n, pAuth(c, q), c.tLen)

\* the encoded page q is the page p encrypted with the stream st, but for the
\* bytes 16..23 of page 1
EncryptedWith(c, q, n, p, st) ==
    \A i \in 1 .. Len(pText(c, p)) :
        (n = 1 /\ i > ClrLo /\ i <= ClrHi) \/ q[i] = Xor(<<"ks", st, i>>, p[i])

\* C30 as stated: the tag of page 1 is made with the MAC key of the database,
\* derived from the master key, as the tags of the pages n > 1 are; the
\* encryption stream of page 1 alone uses keys derived from the user's secret.
C30_Page1Tag ==
    \A n \in Pages :
        Encoded(n) =>
            /\ TaggedWith(inst[res.id], disk.q, n, inst[res.id].hmac)
            /\ EncryptedWith(inst[res.id], disk.q, n, disk.p1,
                             IF n = 1 THEN P1Keys(inst[res.id], disk.q).stream
                             ELSE <<inst[res.id].mode, inst[res.id].block,
                                    pIV(inst[res.id], disk.q)>>)

\* C30 amended: the tag and the encryption stream of page 1 both use keys
\* derived from the user's secret and the IV of the page; the keys of the
\* database, derived from the master key, are used for the tag and the stream
\* of the pages n > 1 only.
C30_Page1UserKeys ==
    \A n \in Pages :
        Encoded(n) =>
            /\ TaggedWith(inst[res.id], disk.q, n,
                          IF n = 1 THEN P1Keys(inst[res.id], disk.q).hmac
                          ELSE inst[res.id].hmac)
            /\ EncryptedWith(inst[res.id], disk.q, n, disk.p1,
                             IF n = 1 THEN P1Keys(inst[res.id], disk.q).stream
                             ELSE <<inst[res.id].mode, inst[res.id].block,
                                    pIV(inst[res.id], disk.q)>>)
            /\ n = 1 => P1Keys(inst[res.id], disk.q).hmac # inst[res.id].hmac

C30_Witness ==
    /\ Encoded(1) /\ res.ini0
    /\ TaggedWith(inst[res.id], disk.q, 1, P1Keys(inst[res.id], disk.q).hmac)
    /\ ~TaggedWith(inst[res.id], disk.q, 1, inst[res.id].hmac)

----------------------------------------------------------------------------
(* Rekey, under SpecRekey *)

\* the outcome of decoding the page on disk at its page number with the codec
\* of pager 2, as the instances st hold it
DiskDecodes(st) ==
    Decode(st[pager[2].codec], disk.q, disk.n).err = "ok"

\* C21: sqlite3_rekey_v2 returns an error with the message "rekey is not
\* implemented" and changes nothing: the codec attached to the pager, its key
\* descriptor and its keys are what they were, and the page on disk that was
\* decodable is still decodable.
C21_RekeyNoop ==
    [][res'.op = "rekey" /\ obs'.op = "rekey" =>
        /\ obs'.rc = "error" /\ obs'.msg = "rekey is not implemented"
        /\ pager' = pager /\ codecs' = codecs /\ inst' = inst /\ keymem' = keymem
        /\ disk' = disk
        /\ pager[2].codec # 0 /\ disk # NoDisk /\ DiskDecodes(inst)
             => DiskDecodes(inst')]_vars

C21_Witness ==
    /\ res.op = "rekey" /\ obs.op = "rekey" /\ obs.rc = "error" /\ pager[2].codec # 0
    /\ disk # NoDisk /\ disk.n > 1 /\ inst[pager[2].codec].block # Nil
    /\ DiskDecodes(inst)

----------------------------------------------------------------------------
(* Key, Free, Reserve, Resize and the constructor's options *)

\* C15: after Free the memory that held the key descriptor is all zero and the
\* instance holds no key, no page buffer, no block cipher and no HMAC.
C15_FreeWipes ==
    res.op = "free" =>
        /\ keymem[res.id] = [scheme |-> "", opts |-> {}, secret |-> Zeros(Len(appkey.secret))]
        /\ ~inst[res.id].key /\ inst[res.id].p1k = <<>> /\ inst[res.id].buf = <<>>
        /\ inst[res.id].block = Nil /\ inst[res.id].hmac = Nil

C15_Witness ==
    res.op = "free" /\ res.ini0 /\ hist[res.id].wrote /\ keymem[res.id] # appkey

\* C16: from construction until Free, Key returns the key descriptor that was
\* given to the constructor, whatever Resize, Encode and Decode calls were made.
C16_KeyReturnsOriginal ==
    /\ res.op = "key" => res.key = appkey
    /\ \A id \in CodecIds : Live(id) => Key(inst[id], keymem[id]) = appkey

C16_Witness ==
    res.op = "key" /\ res.ini0 /\ hist[res.id].wrote /\ res.key = appkey

\* the key lengths that the options of a set can yield
OptK(opts) ==
    IF {"192", "256"} \subseteq opts THEN {KLen192, KLen256}
    ELSE IF "192" \in opts THEN {KLen192}
    ELSE IF "256" \in opts THEN {KLen256}
    ELSE {KLenDefault}

\* C17: the constructor starts from K = 16, T = 16, SHA-1, CTR; each option it
\* knows changes its own setting only; with any other token in the options it
\* returns a MisuseError that names the token, and no codec.
C17_Options ==
    res.op = "new" =>
        IF appkey.opts \subseteq {"192", "256", "ofb", "sha256"}
        THEN /\ res.err = "ok" /\ Live(res.id)
             /\ inst[res.id].kLen \in OptK(appkey.opts)
             /\ inst[res.id].tLen = TLenDefault
             /\ inst[res.id].hash = (IF "sha256" \in appkey.opts THEN "sha256" ELSE "sha1")
             /\ inst[res.id].mode = (IF "ofb" \in appkey.opts THEN "ofb" ELSE "ctr")
        ELSE /\ res.err = "misuse" /\ ~Live(res.id)
             /\ res.msg \in appkey.opts \ {"192", "256", "ofb", "sha256"}

C17_Witness ==
    /\ res.op = "new" /\ res.err = "misuse" /\ res.msg = "foo"
    /\ {"256", "ofb"} \subseteq appkey.opts

\* C19: from construction until Free, Reserve returns K + 16 + T, the same value
\* at every call, whatever Resize, Encode and Decode calls are made.
C19_ReserveFixed ==
    [][\A id \in CodecIds :
        Live(id)' =>
            /\ Reserve(inst[id])' - BlockSize - TLenDefault \in OptK(appkey.opts)
            /\ Live(id) => Reserve(inst[id])' = Reserve(inst[id])]_vars

C19_Witness ==
    /\ res.op = "decode" /\ res.err = "ok" /\ Live(res.id) /\ hist[res.id].resized
    /\ Reserve(inst[res.id]) = KLen256 + BlockSize + TLenDefault

\* C20: Resize panics and keeps the buffer when reserve differs from Reserve();
\* otherwise the buffer gets length pageSize and capacity pageSize - T +
\* outlen(H), and the key, the options, the cipher and the HMAC stay.
C20_Resize ==
    [][res'.op = "resize" =>
        IF res'.reserve # Reserve(inst[res'.id])
        THEN res'.err = "panic" /\ inst' = inst /\ keymem' = keymem
        ELSE /\ res'.err = "ok" /\ keymem' = keymem
             /\ Len(inst'[res'.id].buf) = PageSize
             /\ inst'[res'.id].cap = WordLen * PageSize - WordLen * inst[res'.id].tLen
                                         + HashSize(inst[res'.id].hash)
             /\ inst'[res'.id] = [inst[res'.id] EXCEPT !.buf = inst'[res'.id].buf,
                                                       !.cap = inst'[res'.id].cap]]_vars

C20_Witness ==
    /\ res.op = "resize" /\ res.err = "ok" /\ res.ini0
    /\ inst[res.id].block # Nil /\ Len(inst[res.id].buf) = PageSize

----------------------------------------------------------------------------
(* Statements, under SpecStmt *)

\* the last call was Query or Next on the statement
Fetched == call.op \in {"Query", "Next"}

\* C23: a statement is busy exactly while a row is available. After Query or
\* Next succeeds, Busy() is true and DataTypes() is not nil; after Query or Next
\* returns io.EOF or an error, Busy() is false, DataTypes() is nil and Scan
\* returns io.EOF; Next on a statement that is not busy returns io.EOF and makes
\* no sqlite3_step call.
C23_BusyWhileRow ==
    /\ Busy(stmt) <=> vm.state = "row"
    /\ Fetched /\ call.err = "nil" => Busy(stmt) /\ DataTypes(stmt).ret # <<>>
    /\ Fetched /\ call.err # "nil" =>
        /\ ~Busy(stmt)
        /\ DataTypes(stmt).ret = <<>>
        /\ \A n \in 0 .. MaxCols + 1 : StmtScan(stmt, vm, n).err = "EOF"
    /\ call.op = "Next" /\ ~call.busy0 => call.err = "EOF" /\ call.steps = 0

\* a Next on a busy statement found no more rows
C23_Witness ==
    /\ call.op = "Next" /\ call.busy0 /\ call.err = "EOF" /\ call.steps = 1
    /\ ~Busy(stmt) /\ Valid(stmt)

Executed == call.op \in {"Exec", "Query"}

\* the last call had as many arguments as the statement has parameters, after
\* a call on the same statement that had not: with values of supported types
\* and a step that does not fail, Exec returns nil and Query nil or io.EOF
LaterCallSucceeds ==
    Executed /\ call.valid0 /\ call.misused /\ Len(call.args) = call.nVars0 =>
        /\ call.msg # "statement requires"
        /\ (\A i \in 1 .. Len(call.args) : call.args[i] >= 0) /\ call.o # "error" =>
            /\ call.steps = 1
            /\ call.err = IF call.op = "Query" /\ call.o = "done" THEN "EOF" ELSE "nil"

----------------------------------------------------------------------------
(* Conn.Exec, under SpecConn *)

\* the last call was Conn.Exec with unnamed arguments on an open connection
ExecUnnamed == call.op = "ConnExec" /\ call.valid0 /\ Len(call.args) > 0

\* the parameters of the statements of sql up to statement i
RECURSIVE ParamsUpTo(_, _)
ParamsUpTo(sql, i) ==
    IF i = 0 THEN 0
    ELSE ParamsUpTo(sql, i - 1) + (IF sql[i].kind = "stmt" THEN sql[i].nVars ELSE 0)

\* the next NumParams() values of args for statement i of sql, or the values
\* that are left
NextValues(sql, args, i) ==
    SubSeq(args, ParamsUpTo(sql, i - 1) + 1,
           IF ParamsUpTo(sql, i) < Len(args) THEN ParamsUpTo(sql, i) ELSE Len(args))

\* statement i of sql fails: it does not compile, it gets too few values or a
\* value of an unsupported type, or its step fails
Fails(sql, args, os, i) ==
    \/ sql[i].kind = "bad"
    \/ /\ sql[i].kind = "stmt"
       /\ \/ ParamsUpTo(sql, i) > Len(args)
          \/ \E k \in ParamsUpTo(sql, i - 1) + 1 .. ParamsUpTo(sql, i) : args[k] < 0
          \/ os[i] = "error"

\* the statements of sql that fail
Failing == {i \in 1 .. Len(call.sql) : Fails(call.sql, call.args, call.os, i)}

\* the statements of sql that are to be executed: those up to the first that
\* fails
ToRun ==
    {i \in 1 .. Len(call.sql) :
        call.sql[i].kind = "stmt" /\ \A j \in Failing : i <= j}

\* C26: Conn.Exec in unnamed mode executes the statements of sql in order,
\* giving each statement the next NumParams() values of args; it stops at the
\* first statement that fails; when every statement has succeeded but arguments
\* remain it returns a MISUSE error saying that arguments were left unconsumed.
C26_ConnExec ==
    ExecUnnamed =>
        /\ {call.log[j].i : j \in 1 .. Len(call.log)} = ToRun
        /\ \A j \in 1 .. Len(call.log) :
            /\ j > 1 => call.log[j - 1].i < call.log[j].i
            /\ call.log[j].given = NextValues(call.sql, call.args, call.log[j].i)
        /\ Failing # {} => call.err # "nil" /\ call.msg # "argument(s) left unconsumed"
        /\ Failing = {} /\ ParamsUpTo(call.sql, Len(call.sql)) < Len(call.args) =>
            /\ call.err = "MISUSE" /\ call.msg = "argument(s) left unconsumed"
            /\ call.left = Len(call.args) - ParamsUpTo(call.sql, Len(call.sql))
        /\ Failing = {} /\ ParamsUpTo(call.sql, Len(call.sql)) = Len(call.args) =>
            call.err = "nil"

\* two statements with parameters ran, the second with the values after those
\* of the first, and a value was left
C26_Witness ==
    /\ ExecUnnamed /\ Len(call.log) = 2
    /\ call.log[1].given # <<>> /\ call.log[2].given # <<>>
    /\ call.err = "MISUSE" /\ call.msg = "argument(s) left unconsumed" /\ call.left = 1

----------------------------------------------------------------------------
(* The busy handler, under SpecBusy *)

\* the last call was BusyTimeout or BusyFunc on an open connection
BusySet == call.op \in {"BusyTimeout", "BusyFunc"} /\ call.valid0

\* C27: Conn.BusyTimeout and Conn.BusyFunc are mutually exclusive. After
\* BusyTimeout(d) no Go busy callback is registered, after BusyFunc(f) the
\* registered callback is f, and each of the two calls returns the callback that
\* was registered immediately before it, nil when there was none.
C27_BusyExclusive ==
    BusySet =>
        /\ call.op = "BusyTimeout" => Registered(dbconn) = "nil"
        /\ call.op = "BusyFunc" => Registered(dbconn) = call.f
        /\ call.prev = call.reg0

----------------------------------------------------------------------------
(* The page number, under SpecPn: 1 encodes, 1 and 2 decode *)

\* the last call was a Decode of the page on disk at a page number other than
\* the one it was encoded at, by a codec that has its buffer and that holds the
\* keys of a database, or at page 1, whose keys come with the page
DecodedElsewhere ==
    /\ res.op = "decode" /\ res.src = "disk" /\ res.flip = 0
    /\ res.n # disk.n
    /\ hist[res.id].resized
    /\ res.ini0 \/ res.n = 1

\* C31: the page number is authenticated. A page produced by Encode(p, n) is
\* rejected with CodecError by Decode at every page number m different from n,
\* on the same codec or on a sibling codec with the same keys.
C31_PageNumber == DecodedElsewhere => res.err = "codec" /\ page = res.p0

\* the sibling rejects at page MaxPage + 1 a page that it accepts at page
\* MaxPage, where it was encoded
C31_Witness ==
    /\ DecodedElsewhere /\ res.id = 2 /\ res.n = MaxPage + 1 /\ disk.n = MaxPage
    /\ res.err = "codec"
    /\ Decode(inst[2], disk.q, disk.n).err = "ok"

----------------------------------------------------------------------------
(* The IV, under SpecIv *)

\* the stream that encrypts page n on codec c with the IV iv
StreamOf(c, n, iv) == IF n = 1 THEN cipher(c, 1, iv).stream ELSE <<c.mode, c.block, iv>>

\* C32: every Encode draws a new 16-byte IV from the CSPRNG before encrypting,
\* and the IV slot of the returned page holds exactly the value drawn in that
\* call; no Encode reuses an IV left in the codec buffer by an earlier Encode
\* or Decode.
C32_FreshIV ==
    res.op = "encode" /\ res.err = "ok" =>
        /\ pIV(inst[res.id], disk.q) = rnd(BlockSize, res.rIv)
        /\ EncryptedWith(inst[res.id], disk.q, res.n, disk.p1,
                         StreamOf(inst[res.id], res.n, rnd(BlockSize, res.rIv)))

\* an Encode of a decoded page, which carries the IV of its earlier encoding,
\* returned a page with the other IV, drawn in the call
C32_Witness ==
    /\ res.op = "encode" /\ res.err = "ok" /\ res.ini0
    /\ pIV(inst[res.id], res.p0) = rnd(BlockSize, 1)
    /\ res.rIv = MaxRnd + 1
    /\ pIV(inst[res.id], disk.q) = rnd(BlockSize, MaxRnd + 1)

----------------------------------------------------------------------------
(* The HKDF output buffers, under Spec *)

\* the last call ran cipher for page 1 with the IV it drew (Encode) or found in
\* the page (Decode)
DerivedP1 ==
    /\ res.op \in {"encode", "decode"} /\ res.n = 1 /\ hist[res.id].resized
    /\ res.err \in {"ok", "codec"}
    /\ res.op = "encode" => res.rIv # RndFail /\ res.err = "ok"

\* the IV that call gave to cipher
IvOf == IF res.op = "encode" THEN rnd(BlockSize, res.rIv) ELSE pIV(inst[res.id], res.p0)

\* the last call ran init, which set the cipher of the codec
DerivedDb == res.op \in {"encode", "decode"} /\ ~res.ini0 /\ inst[res.id].block # Nil

\* C33: every HKDF output buffer, the 2K bytes derived from the master key in
\* init and the 2K+16 bytes derived for page 1 in cipher, is zeroed in full
\* before the function that derived it returns.
C33_HkdfWiped ==
    /\ DerivedDb =>
        initDk(inst[res.id], hist[res.id].mk, hist[res.id].hdr)
            = Zeros(2 * inst[res.id].kLen)
    /\ DerivedP1 =>
        cipherDk(inst[res.id], 1, IvOf) = Zeros(2 * inst[res.id].kLen + BlockSize)

\* C34: sqlite3CodecAttach on an in-memory database, or on a connection that has
\* no codec function, returns OK, installs no codec on the pager, adds nothing
\* to the liveness set and leaves the page reserve unchanged; when the codec
\* function returns nil the liveness set and the pager are unchanged as well
C34_NoCodecAttach ==
    [][obs'.op = "attach" /\ (pager[obs'.pg].memDb \/ obs'.ci \in {"none", "nil"})
       => /\ pager' = pager /\ codecs' = codecs /\ obs'.ptr = 0
          /\ obs'.published = obs.published
          /\ pager[obs'.pg].memDb \/ obs'.ci = "none" => obs'.rc = "ok"]_vars

\* an attachment to the in-memory database returned OK while another database
\* of the process has its codec
C34_Witness ==
    /\ obs.op = "attach" /\ obs.ci = "memdb" /\ pager[obs.pg].memDb
    /\ obs.rc = "ok" /\ obs.ptr = 0
    /\ pager[obs.pg].codec = 0 /\ pager[obs.pg].reserve = 0
    /\ codecs # {} /\ \E pg \in Pagers : pager[pg].codec # 0

\* C35: an Encode or a Decode on a codec that was never resized panics, at every
\* page number: it returns neither a page nor an error value
C35_BeforeResize ==
    res.op \in {"encode", "decode"} /\ ~hist[res.id].resized
    => res.err = "panic" /\ res.ret = "null" /\ page = res.p0

\* a Decode of page 1 panicked on a codec that was built for a database another
\* instance had written, and was not resized
C35_Witness ==
    /\ res.op = "decode" /\ res.n = 1 /\ res.src = "disk" /\ res.flip = 0
    /\ Live(res.id) /\ ~hist[res.id].resized /\ res.err = "panic"

\* the last call was a Decode of page 1, on a resized codec, of a page 1 that
\* the instance built from the other secret had encoded
DecodedForeign ==
    /\ res.op = "decode" /\ res.n = 1 /\ res.src = "disk" /\ disk.n = 1
    /\ disk.by # res.id /\ hist[res.id].resized

\* C36: a Decode of page 1 by a codec whose secret differs from the secret the
\* page was encoded under returns CodecError and leaves the page unchanged; a
\* codec that was uninitialized stays so, and no codec takes per-database keys
\* from the page
C36_WrongKey ==
    DecodedForeign =>
        /\ res.err = "codec" /\ res.ret = "null" /\ page = res.p0
        /\ ~res.ini0 => inst[res.id].block = Nil /\ inst[res.id].hmac = Nil
        /\ hist[res.id].iniBy # "decode"

\* the codec built from the other secret, never initialized, rejected page 1 of
\* a database that its writer had initialized and reads back
C36_Witness ==
    /\ DecodedForeign /\ res.id = 2 /\ ~res.ini0 /\ res.err = "codec"
    /\ inst[2].block = Nil /\ inst[1].block # Nil /\ disk.by = 1
    /\ inst[2].p1k # inst[1].p1k

\* what a codec built anew from the key descriptor of c and resized like c gets
\* from a Decode of page 1 in buffer p
FreshDecode(c, p) == Decode([c EXCEPT !.block = Nil, !.hmac = Nil], p, 1)

\* C37: every page 1 that an initialized codec encodes carries the master key of
\* the codec in its encrypted master-key slot, whatever the input page holds
\* there: a fresh codec with the same key descriptor that decodes the page takes
\* that master key from it and derives the per-database keys of the writer
C37_OwnMasterKey ==
    res.op = "encode" /\ res.n = 1 /\ res.err = "ok" /\ res.ini0
    => /\ FreshDecode(inst[res.id], disk.q).err = "ok"
       /\ pKey(inst[res.id], FreshDecode(inst[res.id], disk.q).p) = hist[res.id].mk
       /\ FreshDecode(inst[res.id], disk.q).c.block = inst[res.id].block
       /\ FreshDecode(inst[res.id], disk.q).c.hmac = inst[res.id].hmac

\* C38: the configuration of a codec is a function of its key descriptor: two
\* codecs constructed from the same descriptor, one with both 192 and 256 among
\* its options included, have the same K, hash, mode and Reserve()
C38_Deterministic ==
    Live(1) /\ Live(2) /\ keymem[1] = keymem[2]
    => /\ inst[1].kLen = inst[2].kLen
       /\ inst[1].hash = inst[2].hash
       /\ inst[1].mode = inst[2].mode
       /\ Reserve(inst[1]) = Reserve(inst[2])

\* the methods of Conn that return an error
ErrMethods ==
    {"Prepare", "ConnExec", "ConnQuery", "Begin", "Commit", "Rollback", "Backup", "BlobIO",
     "Status"}

\* the methods of Conn that set a callback
Setters == {"BusyTimeout", "BusyFunc", "CommitFunc", "RollbackFunc", "UpdateFunc"}

\* C39: on a connection whose db is nil, as Close leaves it, Close returns nil;
\* Prepare, Exec, Query, Begin, Commit, Rollback, Backup, BlobIO and Status
\* return ErrBadConn (and no statement, no counters); AutoCommit, LastInsertId,
\* RowsAffected, Path and Limit return zero values; the callback setters return
\* nil and register nothing; no call changes the Conn or runs a statement
C39_ClosedConn ==
    [][dbconn.db = 0 /\ call'.op # "Open"
       => /\ dbconn' = dbconn
          /\ call'.steps = 0 /\ call'.log = <<>>
          /\ call'.op = "ConnClose" => call'.err = "nil"
          /\ call'.op \in ErrMethods => call'.err = "ErrBadConn"
          /\ call'.op \in {"Prepare", "ConnQuery"} => stmt' = NilStmt
          /\ call'.op = "Status" => call'.val = <<0, 0>>
          /\ call'.op = "AutoCommit" => call'.val = <<FALSE>>
          /\ call'.op \in {"LastInsertId", "RowsAffected", "Limit"} => call'.val = <<0>>
          /\ call'.op = "Path" => call'.val = <<"">>
          /\ call'.op \in Setters
               => /\ call'.prev = "nil" /\ Registered(dbconn') = "nil"
                  /\ dbconn'.hooks = {} /\ dbconn'.handler = "none"]_vars

\* a connection was closed while a statement of it was not finalized, and a
\* CommitFunc with a callback on it returned nil and registered nothing
C39_Witness ==
    /\ call.op = "CommitFunc" /\ call.f = "f" /\ ~call.valid0 /\ call.prev = "nil"
    /\ dbconn = NoDbConn /\ vm.state = "init"

====
